---- MODULE Spec2Model ----
(***************************************************************************)
(* A model of the uTP endpoint of src/src/socket.rs (UtpSocket): two       *)
(* endpoints, "c" (the initiator, which calls connect) and "s" (the        *)
(* acceptor), each with its own UDP datagram queue.                        *)
(*                                                                         *)
(* Byte strings are kept as lists of segments [lo, n] of the sender's      *)
(* byte stream (byte number lo .. lo+n-1), so that payload sizes keep the  *)
(* values of the program (MSS, HEADER_SIZE, BUF_SIZE) and every byte keeps *)
(* its identity: a missing, repeated or reordered byte shows.              *)
(***************************************************************************)
EXTENDS Integers, Sequences, FiniteSets, TLC

(***************************************************************************)
(* Program constants.                                                      *)
(***************************************************************************)
BUF_SIZE == 1500
MSS == 1400
MIN_CWND == 2
INIT_CWND == 2
INITIAL_CONGESTION_TIMEOUT == 1000
MIN_CONGESTION_TIMEOUT == 500
MAX_CONGESTION_TIMEOUT == 60000
TARGET == 100000
HEADER_SIZE == 20
U16 == 65536
SYN_ATTEMPTS == 5

(***************************************************************************)
(* Bounds of the model.                                                    *)
(***************************************************************************)
MaxTimeouts == 1
MaxNow == 1
MaxOutSegs == 2
MaxSends == 1
RawData == 2
MaxDups == 1
MaxDrops == 2
LossTimeouts == 3
IdleTimeouts == 6
MaxInserts == 3
MaxSeqNr == 3
MaxStamp == 1

Min(a, b) == IF a <= b THEN a ELSE b
Max(a, b) == IF a >= b THEN a ELSE b
Abs(a) == IF a >= 0 THEN a ELSE -a
\* Rust's integer division and float-to-integer conversion truncate toward zero.
TruncDiv(a, b) == IF a >= 0 THEN a \div b ELSE -((-a) \div b)

(***************************************************************************)
(* Byte strings: Vec<u8> and &[u8] as lists of stream segments.            *)
(***************************************************************************)
Range(lo, n) == IF n = 0 THEN <<>> ELSE <<[lo |-> lo, n |-> n]>>

RECURSIVE BLen(_)
BLen(b) == IF b = <<>> THEN 0 ELSE Head(b).n + BLen(Tail(b))

\* a ++ b, written in normal form (adjacent segments that continue each other are one)
BCat(a, b) ==
    IF a = <<>> THEN b
    ELSE IF b = <<>> THEN a
    ELSE LET l == a[Len(a)]
             f == Head(b)
         IN IF l.lo + l.n = f.lo
            THEN SubSeq(a, 1, Len(a) - 1) \o <<[lo |-> l.lo, n |-> l.n + f.n]>> \o Tail(b)
            ELSE a \o b

\* b[..k]
RECURSIVE BTake(_, _)
BTake(b, k) ==
    IF k = 0 \/ b = <<>> THEN <<>>
    ELSE IF Head(b).n <= k THEN <<Head(b)>> \o BTake(Tail(b), k - Head(b).n)
    ELSE <<[lo |-> Head(b).lo, n |-> k]>>

\* b[k..]
RECURSIVE BDrop(_, _)
BDrop(b, k) ==
    IF k = 0 \/ b = <<>> THEN b
    ELSE IF Head(b).n <= k THEN BDrop(Tail(b), k - Head(b).n)
    ELSE <<[lo |-> Head(b).lo + k, n |-> Head(b).n - k]>> \o Tail(b)

\* buf.chunks(size): the payloads of the packets of one send_to call
RECURSIVE Chunks(_, _, _)
Chunks(lo, n, size) ==
    IF n = 0 THEN <<>>
    ELSE <<Range(lo, Min(n, size))>> \o Chunks(lo + Min(n, size), n - Min(n, size), size)

(***************************************************************************)
(* Packets (the codec of packet.rs, as the socket uses it).                *)
(***************************************************************************)
NewPacket ==
    [type |-> "Data", connection_id |-> 0, seq_nr |-> 0, ack_nr |-> 0,
     wnd_size |-> 0, timestamp |-> 0, timestamp_difference |-> 0,
     payload |-> <<>>, sack |-> <<>>]

\* Packet::len(): header, the selective-ack extension (two bytes of header) and payload
PacketLen(p) ==
    HEADER_SIZE + (IF p.sack = <<>> THEN 0 ELSE 2 + Len(p.sack)) + BLen(p.payload)

\* a datagram on the wire: the packet and the address it was sent from
Dgram(from, p) == [src |-> from, pkt |-> p]

(***************************************************************************)
(* The socket: UtpSocket::bind.  addr is the address of the wrapped UDP    *)
(* socket.  A 16-bit sum that overflows aborts a build with overflow       *)
(* checks and wraps in one without: chk says which build runs.             *)
(***************************************************************************)
Wrap16(x) == x % U16
Overflows16(x) == x < 0 \/ x >= U16

NewSocket(addr, connection_id) ==
    [addr |-> addr,
     connected_to |-> addr,
     receiver_connection_id |-> connection_id,
     sender_connection_id |-> Wrap16(connection_id + 1),
     seq_nr |-> 1,
     ack_nr |-> 0,
     state |-> "New",
     incoming_buffer |-> <<>>,
     send_window |-> <<>>,
     unsent_queue |-> <<>>,
     duplicate_ack_count |-> 0,
     last_acked |-> 0,
     last_acked_timestamp |-> 0,
     fin_seq_nr |-> 0,
     rtt |-> 0,
     rtt_variance |-> 0,
     pending_data |-> <<>>,
     curr_window |-> 0,
     remote_wnd_size |-> 0,
     congestion_timeout |-> INITIAL_CONGESTION_TIMEOUT,
     cwnd |-> INIT_CWND * MSS]

\* appends one datagram, sent by socket s to dst, to the list of datagrams sent
Sent(tx, s, dst, p) == Append(tx, [dst |-> dst, dg |-> Dgram(s.addr, p)])

(***************************************************************************)
(* The reorder buffer.                                                     *)
(***************************************************************************)
\* the index where insert_into_buffer puts a packet: the first entry with seq_nr >= seq
RECURSIVE InsertIndex(_, _, _)
InsertIndex(ib, seq, i) ==
    IF i > Len(ib) \/ ib[i].seq_nr >= seq THEN i ELSE InsertIndex(ib, seq, i + 1)

\* insert_into_buffer, had it not removed the entry that has the packet's number
InsertIntoBufferKeepingBoth(ib, p) ==
    LET i == InsertIndex(ib, p.seq_nr, 1)
    IN SubSeq(ib, 1, i - 1) \o <<p>> \o SubSeq(ib, i, Len(ib))

InsertIntoBuffer(ib, p) ==
    LET i == InsertIndex(ib, p.seq_nr, 1)
        removed == IF i <= Len(ib) /\ ib[i].seq_nr = p.seq_nr
                   THEN SubSeq(ib, 1, i - 1) \o SubSeq(ib, i + 1, Len(ib))
                   ELSE ib
    IN SubSeq(removed, 1, i - 1) \o <<p>> \o SubSeq(removed, i, Len(removed))

AdvanceIncomingBuffer(s) ==
    IF s.incoming_buffer # <<>>
    THEN [s EXCEPT !.ack_nr = Head(s.incoming_buffer).seq_nr,
                   !.incoming_buffer = Tail(s.incoming_buffer)]
    ELSE s

\* the while loop of flush_incoming_buffer, had it stopped after its first packet
FlushLoopOnePacket(s, n, data, chk) ==
    IF s.incoming_buffer = <<>> THEN [s |-> s, data |-> data, panic |-> FALSE]
    ELSE LET head == Head(s.incoming_buffer)
             len == Min(n - BLen(data), BLen(head.payload))
         IN IF ~(s.ack_nr = head.seq_nr \/ Wrap16(s.ack_nr + 1) = head.seq_nr)
            THEN [s |-> s, data |-> data, panic |-> FALSE]
            ELSE [s |-> IF BLen(head.payload) = len
                        THEN AdvanceIncomingBuffer(s)
                        ELSE [s EXCEPT !.pending_data =
                                  BCat(s.pending_data, BDrop(head.payload, len))],
                  data |-> BCat(data, BTake(head.payload, len)),
                  panic |-> FALSE]

\* the while loop of flush_incoming_buffer, had it gone on whatever the head's number
RECURSIVE FlushLoopAnyHead(_, _, _, _)
FlushLoopAnyHead(s, n, data, chk) ==
    IF s.incoming_buffer = <<>> THEN [s |-> s, data |-> data, panic |-> FALSE]
    ELSE LET head == Head(s.incoming_buffer)
             len == Min(n - BLen(data), BLen(head.payload))
             data2 == BCat(data, BTake(head.payload, len))
             s2 == IF BLen(head.payload) = len
                   THEN AdvanceIncomingBuffer(s)
                   ELSE [s EXCEPT !.pending_data =
                             BCat(s.pending_data, BDrop(head.payload, len))]
         IN IF n = BLen(data2)
            THEN [s |-> s2, data |-> data2, panic |-> FALSE]
            ELSE FlushLoopAnyHead(s2, n, data2, chk)

\* the while loop of flush_incoming_buffer: n is buf.len(), data the bytes buf[..idx]
RECURSIVE FlushLoop(_, _, _, _)
FlushLoop(s, n, data, chk) ==
    IF s.incoming_buffer = <<>> THEN [s |-> s, data |-> data, panic |-> FALSE]
    ELSE LET head == Head(s.incoming_buffer)
             same == s.ack_nr = head.seq_nr
         IN IF ~same /\ chk /\ Overflows16(s.ack_nr + 1)
            THEN [s |-> s, data |-> data, panic |-> TRUE]
            ELSE IF ~(same \/ Wrap16(s.ack_nr + 1) = head.seq_nr)
            THEN [s |-> s, data |-> data, panic |-> FALSE]
            ELSE LET len == Min(n - BLen(data), BLen(head.payload))
                     data2 == BCat(data, BTake(head.payload, len))
                     s2 == IF BLen(head.payload) = len
                           THEN AdvanceIncomingBuffer(s)
                           ELSE [s EXCEPT !.pending_data =
                                     BCat(s.pending_data, BDrop(head.payload, len))]
                 IN IF n = BLen(data2)
                    THEN [s |-> s2, data |-> data2, panic |-> FALSE]
                    ELSE FlushLoop(s2, n, data2, chk)

FlushIncomingBuffer(s, n, chk) ==
    IF s.pending_data # <<>>
    THEN LET len == Min(n, BLen(s.pending_data))
         IN IF len = BLen(s.pending_data)
            THEN [s |-> AdvanceIncomingBuffer([s EXCEPT !.pending_data = <<>>]),
                  data |-> s.pending_data, panic |-> FALSE]
            ELSE FlushLoop([s EXCEPT !.pending_data = BDrop(s.pending_data, len)],
                           n, <<>>, chk)
    ELSE FlushLoop(s, n, <<>>, chk)

NoPendingData(s) == s.pending_data = <<>> /\ s.incoming_buffer = <<>>

(***************************************************************************)
(* Replies.                                                                *)
(***************************************************************************)
\* The u32 difference self_t_micro - other_t_micro of prepare_reply underflows.  (A
\* u32 difference is kept as the integer it is congruent to modulo 2^32.)
ReplyOverflows(original, now) == now < original.timestamp

PrepareReply(s, original, t, now) ==
    [NewPacket EXCEPT !.type = t,
                      !.timestamp = now,
                      !.timestamp_difference = now - original.timestamp,
                      !.connection_id = s.sender_connection_id,
                      !.seq_nr = s.seq_nr,
                      !.ack_nr = s.ack_nr]

\* A byte of the selective-ack bitmap is the set of its bits that are 1 (0 is the
\* lowest).  One step of the loop of build_selective_ack for a stashed packet.
SackStep(sack, diff) ==
    LET byte == diff \div 8
        bit == diff % 8
        grown == IF byte >= Len(sack) THEN Append(sack, {}) ELSE sack
    IN [grown EXCEPT ![Len(grown)] = @ \cup {bit}]

RECURSIVE SackFold(_, _, _, _)
SackFold(stashed, ack_nr, sack, chk) ==
    IF stashed = <<>> THEN [sack |-> sack, panic |-> FALSE]
    ELSE LET d == Head(stashed).seq_nr - ack_nr - 2
         IN IF chk /\ Overflows16(d) THEN [sack |-> sack, panic |-> TRUE]
            ELSE SackFold(Tail(stashed), ack_nr, SackStep(sack, d % U16), chk)

BuildSelectiveAck(s, chk) ==
    LET stashed == SelectSeq(s.incoming_buffer, LAMBDA pkt : pkt.seq_nr > s.ack_nr)
        r == SackFold(stashed, s.ack_nr, <<>>, chk)
        len == Len(r.sack)
        pad == IF len % 4 # 0 THEN (len \div 4 + 1) * 4 - len ELSE 0
    IN [sack |-> r.sack \o [i \in 1..pad |-> {}], panic |-> r.panic]

HandleDataPacket(s, packet, env) ==
    LET reply == PrepareReply(s, packet, "State", env.now)
        gap == Wrap16(packet.seq_nr - s.ack_nr) > 1
        b == BuildSelectiveAck(s, env.chk)
    IN IF env.chk /\ ReplyOverflows(packet, env.now)
       THEN [reply |-> <<>>, panic |-> TRUE]
       ELSE IF gap /\ b.panic THEN [reply |-> <<>>, panic |-> TRUE]
       ELSE IF gap /\ Len(b.sack) > 0
       THEN [reply |-> <<[reply EXCEPT !.sack = b.sack]>>, panic |-> FALSE]
       ELSE [reply |-> <<reply>>, panic |-> FALSE]

\* send_fast_resend_request, had it sent its State packet once
SendFastResendRequestOnce(s, tx, now) ==
    Sent(tx, s, s.connected_to,
         [NewPacket EXCEPT !.wnd_size = BUF_SIZE,
                           !.type = "State",
                           !.ack_nr = s.ack_nr,
                           !.seq_nr = s.seq_nr,
                           !.connection_id = s.sender_connection_id,
                           !.timestamp = now,
                           !.timestamp_difference = now - s.last_acked_timestamp])

\* send_fast_resend_request: three State packets to the peer
SendFastResendRequest(s, tx, now) ==
    LET packet == [NewPacket EXCEPT !.wnd_size = BUF_SIZE,
                                    !.type = "State",
                                    !.ack_nr = s.ack_nr,
                                    !.seq_nr = s.seq_nr,
                                    !.connection_id = s.sender_connection_id,
                                    !.timestamp = now,
                                    !.timestamp_difference =
                                        now - s.last_acked_timestamp]
    IN Sent(Sent(Sent(tx, s, s.connected_to, packet), s, s.connected_to, packet),
            s, s.connected_to, packet)

(***************************************************************************)
(* The send window and the congestion controller.                          *)
(***************************************************************************)
ALLOWED_INCREASE == 1

RECURSIVE FindSeq(_, _, _)
\* the position of the first packet of window w with sequence number seq, from i on; 0 if none
FindSeq(w, seq, i) ==
    IF i > Len(w) THEN 0 ELSE IF w[i].seq_nr = seq THEN i ELSE FindSeq(w, seq, i + 1)

ResendLostPacket(s, tx, lost_packet_nr) ==
    LET i == FindSeq(s.send_window, lost_packet_nr, 1)
    IN IF i = 0 THEN tx ELSE Sent(tx, s, s.connected_to, s.send_window[i])

RECURSIVE SumLen(_)
SumLen(w) == IF w = <<>> THEN 0 ELSE PacketLen(Head(w)) + SumLen(Tail(w))

\* advance_send_window, had it left curr_window as it was
AdvanceSendWindowKeepingCount(s) ==
    LET position == FindSeq(s.send_window, s.last_acked, 1)
    IN IF position = 0 THEN s
       ELSE [s EXCEPT !.send_window = SubSeq(@, position + 1, Len(@))]

AdvanceSendWindow(s) ==
    LET position == FindSeq(s.send_window, s.last_acked, 1)
    IN IF position = 0 THEN s
       ELSE [s EXCEPT !.send_window = SubSeq(@, position + 1, Len(@)),
                      !.curr_window = @ - SumLen(SubSeq(s.send_window, 1, position))]

\* update_congestion_window, had it added the increase it computes to cwnd
UpdateCongestionWindowGrowing(s, off, bytes_newly_acked, wraps) ==
    LET increase == TruncDiv(TruncDiv(off, 1000) * bytes_newly_acked * MSS,
                             TruncDiv(TARGET, 1000) * s.cwnd)
        none == increase < 0 /\ wraps
        max_allowed_cwnd == s.curr_window + ALLOWED_INCREASE * MSS
    IN IF none THEN s
       ELSE [s EXCEPT !.cwnd = Max(Min(s.cwnd + Max(increase, 0), max_allowed_cwnd),
                                   MIN_CWND * MSS)]

\* update_congestion_window, had it not kept cwnd at MIN_CWND * MSS or more
UpdateCongestionWindowNoFloor(s, off, bytes_newly_acked, wraps) ==
    LET increase == TruncDiv(TruncDiv(off, 1000) * bytes_newly_acked * MSS,
                             TruncDiv(TARGET, 1000) * s.cwnd)
        none == increase < 0 /\ wraps
        max_allowed_cwnd == s.curr_window + ALLOWED_INCREASE * MSS
    IN IF none THEN s
       ELSE [s EXCEPT !.cwnd = Min(s.cwnd, max_allowed_cwnd)]

\* off is TARGET - queuing_delay, so that off_target = off / TARGET (delays are
\* whole milliseconds here).  The increase GAIN * off_target * bytes_newly_acked *
\* MSS / cwnd is converted to u32: when it is -1 or less the conversion has no
\* defined result, and wraps says whether the build produced a value that makes
\* checked_add overflow.  An increase of 0 or more is far below 2^32, and then
\* checked_add gives Some.
UpdateCongestionWindow(s, off, bytes_newly_acked, wraps) ==
    LET increase == TruncDiv(TruncDiv(off, 1000) * bytes_newly_acked * MSS,
                             TruncDiv(TARGET, 1000) * s.cwnd)
        none == increase < 0 /\ wraps
        max_allowed_cwnd == s.curr_window + ALLOWED_INCREASE * MSS
    IN IF none THEN s
       ELSE [s EXCEPT !.cwnd = Max(Min(s.cwnd, max_allowed_cwnd), MIN_CWND * MSS)]

UpdateCongestionTimeout(s, current_delay) ==
    LET delta == s.rtt - current_delay
        rtt_variance == s.rtt_variance + TruncDiv(Abs(delta) - s.rtt_variance, 4)
        rtt == s.rtt + TruncDiv(current_delay - s.rtt, 8)
        sum == rtt + rtt_variance * 4
        \* a negative i32 converted to u64 is above every timeout
        as_u64 == IF sum < 0 THEN MAX_CONGESTION_TIMEOUT + 1 ELSE sum
    IN [s EXCEPT !.rtt_variance = rtt_variance,
                 !.rtt = rtt,
                 !.congestion_timeout =
                     Min(Max(as_u64, MIN_CONGESTION_TIMEOUT), MAX_CONGESTION_TIMEOUT)]

\* the bits of a selective-ack extension, in the order extension.iter() gives them
SackBits(sack) == [i \in 1..(8 * Len(sack)) |-> ((i - 1) % 8) \in sack[((i - 1) \div 8) + 1]]

CountSet(bits) == Cardinality({i \in 1..Len(bits) : bits[i]})

\* the loop over the bits of handle_state_packet, from bit idx on
RECURSIVE SackLoop(_, _, _, _, _, _)
SackLoop(s, packet, bits, idx, r, chk) ==
    IF idx >= Len(bits) THEN r
    ELSE LET sum == packet.ack_nr + 2 + idx
             seq_nr == Wrap16(sum)
         IN IF chk /\ Overflows16(sum) THEN [r EXCEPT !.panic = TRUE]
            ELSE IF bits[idx + 1] THEN SackLoop(s, packet, bits, idx + 1, r, chk)
            ELSE IF s.send_window # <<>> /\ seq_nr < s.send_window[Len(s.send_window)].seq_nr
            THEN SackLoop(s, packet, bits, idx + 1,
                          [r EXCEPT !.tx = ResendLostPacket(s, @, seq_nr), !.loss = TRUE],
                          chk)
            ELSE r

\* the loop of handle_state_packet after three duplicate acknowledgments
RECURSIVE ResendAfter(_, _, _, _)
ResendAfter(s, tx, ack_nr, i) ==
    IF i > Len(s.send_window) THEN tx
    ELSE IF s.send_window[i].seq_nr <= ack_nr THEN ResendAfter(s, tx, ack_nr, i + 1)
    ELSE ResendAfter(s, ResendLostPacket(s, tx, s.send_window[i].seq_nr), ack_nr, i + 1)

\* env.qd is the queuing delay the socket measures (queuing_delay(), from its clock
\* and the timestamps of the packets)
HandleStatePacket(s, packet, env) ==
    LET s1 == IF packet.ack_nr = s.last_acked
              THEN [s EXCEPT !.duplicate_ack_count = @ + 1]
              ELSE [s EXCEPT !.last_acked = packet.ack_nr,
                             !.last_acked_timestamp = env.now,
                             !.duplicate_ack_count = 1]
        off == TARGET - env.qd
        s2 == UpdateCongestionWindow(s1, off, PacketLen(packet), env.wraps)
        rtt == TruncDiv(TARGET - TruncDiv(off, TARGET), 1000)
        s3 == UpdateCongestionTimeout(s2, rtt)
        loss0 == s3.send_window # <<>> /\ s3.duplicate_ack_count = 3
        bits == SackBits(packet.sack)
        three == packet.sack # <<>> /\ CountSet(bits) >= 3
        ovf == three /\ env.chk /\ Overflows16(packet.ack_nr + 1)
        r0 == [tx |-> IF three THEN ResendLostPacket(s3, <<>>, Wrap16(packet.ack_nr + 1))
                      ELSE <<>>,
               loss |-> loss0 \/ three,
               panic |-> ovf]
        r1 == IF ovf \/ packet.sack = <<>> THEN r0
              ELSE SackLoop(s3, packet, bits, 0, r0, env.chk)
        s4 == IF r1.loss THEN [s3 EXCEPT !.cwnd = Max(@ \div 2, MIN_CWND * MSS)] ELSE s3
        tx2 == IF s4.send_window # <<>> /\ s4.duplicate_ack_count = 3
               THEN ResendAfter(s4, r1.tx, packet.ack_nr, 1)
               ELSE r1.tx
    IN IF r1.panic THEN [s |-> s3, tx |-> r1.tx, panic |-> TRUE]
       ELSE [s |-> AdvanceSendWindow(s4), tx |-> tx2, panic |-> FALSE]

(***************************************************************************)
(* handle_packet.  The result: the socket, the reply packet if any (reply),*)
(* the datagrams retransmitted meanwhile (tx) and res: "Ok", the kind of   *)
(* the IoError returned, or "panic" when the call aborts the program.      *)
(* env holds what the call reads from its environment: the build (chk),    *)
(* the clock (now), the random number generator (rnd) and the measured     *)
(* delay (qd, wraps).                                                      *)
(***************************************************************************)
HandleResult(s, reply, tx, res) == [s |-> s, reply |-> reply, tx |-> tx, res |-> res]

\* a reply of type t to packet, or the abort of prepare_reply's subtraction
ReplyResult(s, packet, t, env) ==
    IF env.chk /\ ReplyOverflows(packet, env.now)
    THEN HandleResult(s, <<>>, <<>>, "panic")
    ELSE HandleResult(s, <<PrepareReply(s, packet, t, env.now)>>, <<>>, "Ok")

\* handle_packet's (New, Syn) arm, had it kept the ids drawn by bind
HandleSynKeepingIds(s, packet, src, env) ==
    ReplyResult([s EXCEPT !.connected_to = src,
                          !.ack_nr = packet.seq_nr,
                          !.seq_nr = env.rnd,
                          !.state = "Connected"],
                packet, "State", env)

\* handle_packet's (New, Syn) arm, had it taken the Syn's id for both of its ids
HandleSynOneId(s, packet, src, env) ==
    ReplyResult([s EXCEPT !.connected_to = src,
                          !.ack_nr = packet.seq_nr,
                          !.seq_nr = env.rnd,
                          !.receiver_connection_id = packet.connection_id,
                          !.sender_connection_id = packet.connection_id,
                          !.state = "Connected"],
                packet, "State", env)

HandleSyn(s, packet, src, env) ==
    LET s1 == [s EXCEPT !.connected_to = src,
                        !.ack_nr = packet.seq_nr,
                        !.seq_nr = env.rnd]
        s2 == [s1 EXCEPT !.receiver_connection_id = Wrap16(packet.connection_id + 1),
                         !.sender_connection_id = packet.connection_id,
                         !.state = "Connected"]
    IN IF env.chk /\ Overflows16(packet.connection_id + 1)
       THEN HandleResult(s1, <<>>, <<>>, "panic")
       ELSE ReplyResult(s2, packet, "State", env)

\* handle_packet's (SynSent, State) arm, had it left seq_nr as it was
HandleSynSentStateKeepingSeqNr(s, packet, env) ==
    HandleResult([s EXCEPT !.ack_nr = packet.seq_nr,
                           !.state = "Connected",
                           !.last_acked = packet.ack_nr,
                           !.last_acked_timestamp = env.now],
                 <<>>, <<>>, "Ok")

HandleSynSentState(s, packet, env) ==
    IF env.chk /\ Overflows16(s.seq_nr + 1)
    THEN HandleResult([s EXCEPT !.ack_nr = packet.seq_nr], <<>>, <<>>, "panic")
    ELSE HandleResult([s EXCEPT !.ack_nr = packet.seq_nr,
                                !.seq_nr = Wrap16(@ + 1),
                                !.state = "Connected",
                                !.last_acked = packet.ack_nr,
                                !.last_acked_timestamp = env.now],
                      <<>>, <<>>, "Ok")

HandleFin(s, packet, env) ==
    LET s1 == [s EXCEPT !.state = "FinReceived", !.fin_seq_nr = packet.seq_nr]
    IN IF NoPendingData(s1) /\ s1.ack_nr = s1.fin_seq_nr
       THEN ReplyResult([s1 EXCEPT !.state = "Closed"], packet, "State", env)
       ELSE HandleResult(s1, <<>>, <<>>, "Ok")

HandlePacket(s0, packet, src, env) ==
    LET s1 == IF Wrap16(packet.seq_nr - s0.ack_nr) = 1
              THEN [s0 EXCEPT !.ack_nr = packet.seq_nr]
              ELSE s0
        s == [s1 EXCEPT !.remote_wnd_size = packet.wnd_size]
        ty == packet.type
    IN IF ~(s1.state = "New" /\ ty = "Syn")
          /\ ~(packet.connection_id = s1.sender_connection_id
               \/ packet.connection_id = s1.receiver_connection_id)
       THEN ReplyResult(s1, packet, "Reset", env)
       ELSE IF s.state = "New" /\ ty = "Syn" THEN HandleSyn(s, packet, src, env)
       ELSE IF s.state = "SynSent" /\ ty = "State" THEN HandleSynSentState(s, packet, env)
       ELSE IF s.state = "SynSent" THEN HandleResult(s, <<>>, <<>>, "ConnectionFailed")
       ELSE IF s.state = "Connected" /\ ty = "Syn" THEN HandleResult(s, <<>>, <<>>, "Ok")
       ELSE IF s.state = "Connected" /\ ty = "Data"
       THEN LET d == HandleDataPacket(s, packet, env)
            IN HandleResult(s, d.reply, <<>>, IF d.panic THEN "panic" ELSE "Ok")
       ELSE IF s.state = "Connected" /\ ty = "State"
       THEN LET h == HandleStatePacket(s, packet, env)
            IN HandleResult(h.s, <<>>, h.tx, IF h.panic THEN "panic" ELSE "Ok")
       ELSE IF s.state = "Connected" /\ ty = "Fin" THEN HandleFin(s, packet, env)
       ELSE IF s.state = "FinSent" /\ ty = "State"
       THEN HandleResult(IF packet.ack_nr = s.seq_nr THEN [s EXCEPT !.state = "Closed"] ELSE s,
                         <<>>, <<>>, "Ok")
       ELSE IF ty = "Reset"
       THEN HandleResult([s EXCEPT !.state = "ResetReceived"], <<>>, <<>>, "ConnectionReset")
       ELSE HandleResult(s, <<>>, <<>>, "panic")

(***************************************************************************)
(* recv and recv_from.  n is the length of the caller's buffer; ev is what *)
(* the UDP socket's recv_from does if the call reaches it: it times out    *)
(* ([kind |-> "timeout"]) or returns a datagram ([kind |-> "pkt", dg]).    *)
(* The result: the socket, the datagrams sent (tx), res as for             *)
(* handle_packet, the bytes put in the caller's buffer (data) and whether  *)
(* the UDP socket was read (took).                                         *)
(***************************************************************************)
RecvResult(s, tx, res, data, took) ==
    [s |-> s, tx |-> tx, res |-> res, data |-> data, took |-> took]

\* recv, after handle_packet returned h: the reply is sent, the buffer flushed
RecvFlushed(h, tx, f) ==
    IF h.res # "Ok" THEN RecvResult(h.s, h.tx, h.res, <<>>, TRUE)
    ELSE IF f.panic THEN RecvResult(f.s, tx, "panic", <<>>, TRUE)
    ELSE RecvResult(f.s, tx, "Ok", f.data, TRUE)

RecvHandled(h, src, n, chk) ==
    RecvFlushed(h,
                IF h.reply = <<>> THEN h.tx
                ELSE Sent(h.tx, h.s, src, [h.reply[1] EXCEPT !.wnd_size = BUF_SIZE]),
                FlushIncomingBuffer(h.s, n, chk))

\* recv, when the UDP socket timed out
RecvTimedOut(s, now) ==
    RecvResult(s, SendFastResendRequest(s, <<>>, now), "Ok", <<>>, TRUE)

Recv(s0, n, ev, env) ==
    IF ev.kind = "timeout"
    THEN RecvTimedOut([s0 EXCEPT !.congestion_timeout = @ * 2, !.cwnd = MSS], env.now)
    ELSE RecvHandled(HandlePacket(IF ev.dg.pkt.type = "Data"
                                     /\ Wrap16(s0.ack_nr + 1) <= ev.dg.pkt.seq_nr
                                  THEN [s0 EXCEPT !.incoming_buffer =
                                                      InsertIntoBuffer(@, ev.dg.pkt)]
                                  ELSE s0,
                                  ev.dg.pkt, ev.dg.src, env),
                     ev.dg.src, n, env.chk)

\* recv_from, after flush_incoming_buffer returned f
RecvFromFlushed(f, n, ev, env) ==
    IF f.panic THEN RecvResult(f.s, <<>>, "panic", <<>>, FALSE)
    ELSE IF BLen(f.data) # 0 THEN RecvResult(f.s, <<>>, "Ok", f.data, FALSE)
    ELSE Recv(f.s, n, ev, env)

\* recv_from, had it answered a Closed socket as it answers a reset one
RecvFromOneError(s, n, ev, env) ==
    IF s.state \in {"Closed", "ResetReceived"}
    THEN RecvResult(s, <<>>, "Closed", <<>>, FALSE)
    ELSE RecvFromFlushed(FlushIncomingBuffer(s, n, env.chk), n, ev, env)

RecvFrom(s, n, ev, env) ==
    IF s.state = "Closed" THEN RecvResult(s, <<>>, "EndOfFile", <<>>, FALSE)
    ELSE IF s.state = "ResetReceived" THEN RecvResult(s, <<>>, "Closed", <<>>, FALSE)
    ELSE RecvFromFlushed(FlushIncomingBuffer(s, n, env.chk), n, ev, env)

\* recv_from with this buffer reaches the UDP socket
ReadsSocket(s, n, chk) ==
    /\ s.state \notin {"Closed", "ResetReceived"}
    /\ LET f == FlushIncomingBuffer(s, n, chk) IN ~f.panic /\ BLen(f.data) = 0

(***************************************************************************)
(* send_to, send and close, cut at the calls of recv_from that wait for a  *)
(* datagram: each operator runs the code from one such call to the next.   *)
(* l holds the locals of the call in progress.  The result: the socket,    *)
(* the datagrams sent (tx), the locals, and at: the loop the call now      *)
(* waits in ("send", "send_ack", "close_drain", "close_fin"), or "return"  *)
(* with the call's result res.                                             *)
(***************************************************************************)
NoLocals == [attempts |-> 0, syn_timeout |-> 0, max_inflight |-> 0, packet |-> <<>>]

CallResult(s, tx, l, at, res) == [s |-> s, tx |-> tx, l |-> l, at |-> at, res |-> res]

\* the chunk loop of send_to: one Data packet per chunk, seq_nr stepping 65535 -> 0
RECURSIVE Compose(_, _)
Compose(s, chunks) ==
    IF chunks = <<>> THEN s
    ELSE LET packet == [NewPacket EXCEPT !.type = "Data",
                                         !.payload = Head(chunks),
                                         !.seq_nr = s.seq_nr,
                                         !.ack_nr = s.ack_nr,
                                         !.connection_id = s.sender_connection_id]
         IN Compose([s EXCEPT !.unsent_queue = Append(@, packet),
                              !.seq_nr = IF @ = U16 - 1 THEN 0 ELSE @ + 1],
                    Tail(chunks))

\* the loop at the end of send_to, entered or re-entered
RunSendAck(s, tx, env) ==
    IF env.chk /\ Overflows16(s.seq_nr - 1) THEN CallResult(s, tx, NoLocals, "return", "panic")
    ELSE IF s.last_acked < Wrap16(s.seq_nr - 1) THEN CallResult(s, tx, NoLocals, "send_ack", "")
    ELSE CallResult(s, tx, NoLocals, "return", "Ok")

\* send(): l.packet is the packet popped from the unsent queue, if one is waiting
RECURSIVE RunSend(_, _, _, _)
RunSend(s, tx, l, env) ==
    IF l.packet # <<>>
    THEN LET packet == [l.packet[1] EXCEPT !.timestamp = env.now]
         IN IF s.curr_window + PacketLen(packet) > l.max_inflight
            THEN CallResult(s, tx, l, "send", "")
            ELSE RunSend([s EXCEPT !.curr_window = @ + PacketLen(packet),
                                   !.send_window = Append(@, packet)],
                         Sent(tx, s, s.connected_to, packet),
                         [l EXCEPT !.packet = <<>>], env)
    ELSE IF s.unsent_queue = <<>> THEN RunSendAck(s, tx, env)
    ELSE RunSend([s EXCEPT !.unsent_queue = Tail(@)], tx,
                 [l EXCEPT !.packet = <<Head(s.unsent_queue)>>,
                           !.max_inflight = Max(MIN_CWND * MSS, Min(s.cwnd, s.remote_wnd_size))],
                 env)

\* send_to, had it not looked at the state first
SendToUnchecked(s, lo, n, env) ==
    RunSend(Compose(s, Chunks(lo, n, MSS - HEADER_SIZE)), <<>>, NoLocals, env)

\* send_to(buf), buf being bytes lo .. lo+n-1 of the caller's stream
SendTo(s, lo, n, env) ==
    IF s.state = "Closed" THEN CallResult(s, <<>>, NoLocals, "return", "Closed")
    ELSE RunSend(Compose(s, Chunks(lo, n, MSS - HEADER_SIZE)), <<>>, NoLocals, env)

\* the second loop of close, entered or re-entered
RunCloseFin(s, tx) ==
    IF s.state # "Closed" THEN CallResult(s, tx, NoLocals, "close_fin", "")
    ELSE CallResult(s, tx, NoLocals, "return", "Ok")

\* close(), from its first loop, entered or re-entered
RunClose(s, tx, env) ==
    IF s.send_window # <<>> THEN CallResult(s, tx, NoLocals, "close_drain", "")
    ELSE IF s.state = "Closed" THEN CallResult(s, tx, NoLocals, "return", "Ok")
    ELSE RunCloseFin([s EXCEPT !.state = "FinSent"],
                     Sent(tx, s, s.connected_to,
                          [NewPacket EXCEPT !.connection_id = s.sender_connection_id,
                                            !.seq_nr = s.seq_nr,
                                            !.ack_nr = s.ack_nr,
                                            !.timestamp = env.now,
                                            !.type = "Fin"]))

\* One recv_from of a loop of send_to, send or close (its buffer is BUF_SIZE long and
\* the bytes it returns are dropped), and the code up to the next one.  An error
\* returns from the call (try!) or, in send(), aborts the program (iotry!).
InnerRecvReturned(r, l, at, env) ==
    IF r.res # "Ok"
    THEN CallResult(r.s, r.tx, NoLocals, "return", IF at = "send" THEN "panic" ELSE r.res)
    ELSE IF at = "send" THEN RunSend(r.s, r.tx, l, env)
    ELSE IF at = "send_ack" THEN RunSendAck(r.s, r.tx, env)
    ELSE IF at = "close_drain" THEN RunClose(r.s, r.tx, env)
    ELSE RunCloseFin(r.s, r.tx)

InnerRecv(s, l, at, ev, env) ==
    InnerRecvReturned(RecvFrom(s, BUF_SIZE, ev, env), l, at, env)

\* the Syn packet of connect
SynPacket(s, now) ==
    [NewPacket EXCEPT !.type = "Syn",
                      !.connection_id = s.receiver_connection_id,
                      !.seq_nr = s.seq_nr,
                      !.timestamp = now]

\* connect, up to its first wait for a reply
ConnectStart(s0, other, env) ==
    LET s == [s0 EXCEPT !.connected_to = other]
    IN IF (env.chk /\ Overflows16(s.receiver_connection_id + 1))
          \/ Wrap16(s.receiver_connection_id + 1) # s.sender_connection_id
       THEN CallResult(s, <<>>, NoLocals, "return", "panic")
       ELSE CallResult([s EXCEPT !.state = "SynSent"],
                       Sent(<<>>, s, other, SynPacket(s, env.now)),
                       [NoLocals EXCEPT !.attempts = 1, !.syn_timeout = s.congestion_timeout],
                       "connect", "")

\* connect giving up after its fourth attempt
ConnectTimeoutFourAttempts(s, l, env) ==
    IF l.attempts < SYN_ATTEMPTS - 1
    THEN CallResult(s, Sent(<<>>, s, s.connected_to, SynPacket(s, env.now)),
                    [l EXCEPT !.attempts = @ + 1, !.syn_timeout = @ * 2], "connect", "")
    ELSE CallResult(s, <<>>, NoLocals, "return", "panic")

\* the wait of connect times out: the next attempt, or the end of the loop with
\* len = 0, where assert!(len == HEADER_SIZE) fails
ConnectTimeout(s, l, env) ==
    IF l.attempts < SYN_ATTEMPTS
    THEN CallResult(s, Sent(<<>>, s, s.connected_to, SynPacket(s, env.now)),
                    [l EXCEPT !.attempts = @ + 1, !.syn_timeout = @ * 2], "connect", "")
    ELSE CallResult(s, <<>>, NoLocals, "return", "panic")

\* the wait of connect returns datagram dg
ConnectHandled(h) == CallResult(h.s, h.tx, NoLocals, "return", h.res)

ConnectReply(s, dg, env) ==
    IF PacketLen(dg.pkt) # HEADER_SIZE \/ dg.src # s.connected_to
    THEN CallResult(s, <<>>, NoLocals, "return", "panic")
    ELSE IF dg.pkt.type # "State"
    THEN CallResult(s, <<>>, NoLocals, "return", "ConnectionFailed")
    ELSE ConnectHandled(HandlePacket(s, dg.pkt, dg.src, env))

(***************************************************************************)
(* The system: the two endpoints, their callers and the network.           *)
(***************************************************************************)
VARIABLES
    sock,       \* sock[e]: the UtpSocket of endpoint e
    pc,         \* pc[e]: "idle" (no call in progress), the loop the call in progress
                \* waits in, "aborted" (the program panicked) or "dropped" (connect failed)
    loc,        \* loc[e]: the locals of the call in progress
    net,        \* net[a]: the datagrams sent to address a and not yet received, oldest first
    out,        \* out[e]: the bytes recv_from has returned to the caller of e, in order
    ret,        \* ret[e]: the last call that returned, with its result
    sent,       \* sent[e]: how many bytes the caller of e has passed to send_to
    calls,      \* calls[e]: how many send_to and close calls the caller of e has made
    timeouts,   \* timeouts[e]: how many receives of e timed out (connect's apart)
    now,        \* the clock, now_microseconds()
    chk,        \* the build: TRUE when integer overflow aborts, FALSE when it wraps
    cfg         \* the scenario: what the callers and the network may do

vars == <<sock, pc, loc, net, out, ret, sent, calls, timeouts, now, chk, cfg>>

Endpoints == {"c", "s"}
Peer(e) == IF e = "c" THEN "s" ELSE "c"

\* the queuing delays a socket may measure, in microseconds
QDelays == {0, 200000}

\* A scenario: the connection ids bind may draw for the initiator (conn_ids) and the
\* acceptor (acc_ids), the sequence numbers the acceptor may draw (rand_seqs), the
\* buffer lengths passed to recv_from (bufs), the lengths passed to send_to (sizes),
\* the endpoints whose caller calls send_to (senders) and close (closers), and the
\* kinds of datagram that may still reach an endpoint from its peer's address though
\* the peer's socket did not send them (forge), how many more datagrams the network
\* may deliver a second time (dups) and may lose (drops), how many receives may
\* time out (timeouts), at which endpoints (timers), and the packets that a caller
\* which calls insert_into_buffer itself passes to it, in order (script).
Scenario(conn_ids, rand_seqs, bufs, sizes, senders, closers) ==
    [conn_ids |-> conn_ids, acc_ids |-> {20}, rand_seqs |-> rand_seqs, bufs |-> bufs,
     sizes |-> sizes, senders |-> senders, closers |-> closers, forge |-> {}, dups |-> 0,
     drops |-> 0, timeouts |-> MaxTimeouts, timers |-> Endpoints, script |-> <<>>,
     wake |-> [e \in Endpoints |-> 0]]

NoRet == [op |-> "", res |-> "", n |-> 0]
Ret(op, res, n) == [op |-> op, res |-> res, n |-> n]

\* the datagrams of tx appended to the queues of their destinations
RECURSIVE Deliver(_, _)
Deliver(q, tx) ==
    IF tx = <<>> THEN q
    ELSE Deliver([q EXCEPT ![Head(tx).dst] = Append(@, Head(tx).dg)], Tail(tx))

\* what the environment may hand a call of endpoint e that receives: the events of
\* its UDP socket and the values it reads
Events(e, reads) ==
    IF ~reads THEN {[kind |-> "none"]}
    ELSE (IF net[e] # <<>> THEN {[kind |-> "pkt", dg |-> Head(net[e])]} ELSE {})
         \cup (IF sock[e].state # "New" /\ e \in cfg.timers
                  /\ timeouts["c"] + timeouts["s"] < cfg.timeouts
               THEN {[kind |-> "timeout"]} ELSE {})

Envs(e, ev) ==
    LET isState == ev.kind = "pkt" /\ ev.dg.pkt.type = "State"
                   /\ sock[e].state = "Connected"
        isSyn == ev.kind = "pkt" /\ ev.dg.pkt.type = "Syn" /\ sock[e].state = "New"
    IN {[chk |-> chk, now |-> now, rnd |-> r, qd |-> q, wraps |-> w] :
            r \in (IF isSyn THEN cfg.rand_seqs ELSE {0}),
            q \in (IF isState THEN QDelays ELSE {0}),
            w \in (IF isState THEN BOOLEAN ELSE {FALSE})}

PlainEnv == [chk |-> chk, now |-> now, rnd |-> 0, qd |-> 0, wraps |-> FALSE]

\* the queues after endpoint e received event ev
NetAfter(e, ev) == IF ev.kind = "pkt" THEN [net EXCEPT ![e] = Tail(@)] ELSE net

TimeoutsAfter(e, ev) ==
    IF ev.kind = "timeout" THEN [timeouts EXCEPT ![e] = @ + 1] ELSE timeouts

InitWith(scenarios) ==
    /\ chk \in BOOLEAN
    /\ cfg \in scenarios
    /\ \E ci \in cfg.conn_ids, si \in cfg.acc_ids :
          /\ ~(chk /\ (Overflows16(ci + 1) \/ Overflows16(si + 1)))
          /\ sock = [e \in Endpoints |-> NewSocket(e, IF e = "c" THEN ci ELSE si)]
    /\ pc = [e \in Endpoints |-> "idle"]
    /\ loc = [e \in Endpoints |-> NoLocals]
    /\ net = [e \in Endpoints |-> <<>>]
    /\ out = [e \in Endpoints |-> <<>>]
    /\ ret = [e \in Endpoints |-> NoRet]
    /\ sent = [e \in Endpoints |-> 0]
    /\ calls = [e \in Endpoints |-> 0]
    /\ timeouts = [e \in Endpoints |-> 0]
    /\ now = 0

\* the last call of the caller of e was op, it returned res and no call has begun since
Returned(e, op, res) == pc[e] = "idle" /\ ret[e] = Ret(op, res, 0)

\* the clock advances
Tick ==
    /\ now < MaxNow
    /\ now' = now + 1
    /\ UNCHANGED <<sock, pc, loc, net, out, ret, sent, calls, timeouts, chk, cfg>>

\* a call of endpoint e that was in progress, or begins, continues as c says; q is
\* the queues before its datagrams are sent
Continue(e, op, c, q) ==
    /\ sock' = [sock EXCEPT ![e] = c.s]
    /\ loc' = [loc EXCEPT ![e] = c.l]
    /\ pc' = [pc EXCEPT ![e] = IF c.at # "return" THEN c.at
                                 ELSE IF c.res = "panic" THEN "aborted"
                                 ELSE IF op = "connect" /\ c.res # "Ok" THEN "dropped"
                                 ELSE "idle"]
    /\ ret' = IF c.at = "return" THEN [ret EXCEPT ![e] = Ret(op, c.res, 0)] ELSE ret
    /\ net' = Deliver(q, c.tx)

\* the operation whose loop is at
OpOf(at) ==
    IF at = "connect" THEN "connect"
    ELSE IF at \in {"send", "send_ack"} THEN "send_to" ELSE "close"

\* the initiator calls connect(peer)
Connect(e) ==
    /\ e = "c" /\ pc[e] = "idle" /\ sock[e].state = "New" /\ ret[e] = NoRet
    /\ Continue(e, "connect", ConnectStart(sock[e], Peer(e), PlainEnv), net)
    /\ UNCHANGED <<out, sent, calls, timeouts, now, chk, cfg>>

\* the wait of connect for a reply times out
ConnectTimesOut(e) ==
    /\ pc[e] = "connect"
    /\ Continue(e, "connect", ConnectTimeout(sock[e], loc[e], PlainEnv), net)
    /\ UNCHANGED <<out, sent, calls, timeouts, now, chk, cfg>>

\* the wait of connect for a reply returns the next datagram
ConnectReceives(e) ==
    /\ pc[e] = "connect" /\ net[e] # <<>>
    /\ Continue(e, "connect", ConnectReply(sock[e], Head(net[e]), PlainEnv),
                [net EXCEPT ![e] = Tail(@)])
    /\ UNCHANGED <<out, sent, calls, timeouts, now, chk, cfg>>

\* recv_from of endpoint e returns r to the caller
RecvReturns(e, r, q) ==
    /\ sock' = [sock EXCEPT ![e] = r.s]
    /\ pc' = [pc EXCEPT ![e] = IF r.res = "panic" THEN "aborted" ELSE "idle"]
    /\ ret' = [ret EXCEPT ![e] = Ret("recv_from", r.res, BLen(r.data))]
    /\ out' = [out EXCEPT ![e] = BCat(@, r.data)]
    /\ net' = Deliver(q, r.tx)

\* the caller of e calls recv_from with a buffer of n bytes
UserRecv(e) ==
    /\ pc[e] = "idle" /\ (e = "c" => ret[e] # NoRet)
    /\ Len(out[e]) <= MaxOutSegs
    /\ \E n \in cfg.bufs :
       \E ev \in Events(e, ReadsSocket(sock[e], n, chk)) :
       \E env \in Envs(e, ev) :
          /\ RecvReturns(e, RecvFrom(sock[e], n, ev, env), NetAfter(e, ev))
          /\ timeouts' = TimeoutsAfter(e, ev)
    /\ UNCHANGED <<loc, sent, calls, now, chk, cfg>>

\* the caller of e calls send_to with the next n bytes of its stream
UserSendTo(e) ==
    /\ pc[e] = "idle" /\ sock[e].state # "New" /\ calls[e] < MaxSends
    /\ e \in cfg.senders
    /\ \E n \in cfg.sizes :
          /\ Continue(e, "send_to", SendTo(sock[e], sent[e], n, PlainEnv), net)
          /\ sent' = [sent EXCEPT ![e] = IF sock[e].state = "Closed" THEN @ ELSE @ + n]
    /\ calls' = [calls EXCEPT ![e] = @ + 1]
    /\ UNCHANGED <<out, timeouts, now, chk, cfg>>

\* the caller of e calls close
UserClose(e) ==
    /\ pc[e] = "idle" /\ sock[e].state # "New" /\ ret[e].op # "close"
    /\ e \in cfg.closers
    /\ Continue(e, "close", RunClose(sock[e], <<>>, PlainEnv), net)
    /\ UNCHANGED <<out, sent, calls, timeouts, now, chk, cfg>>

\* the call in progress at e (send_to or close) does one recv_from and goes on
CallRecv(e) ==
    /\ pc[e] \in {"send", "send_ack", "close_drain", "close_fin"}
    /\ \E ev \in Events(e, ReadsSocket(sock[e], BUF_SIZE, chk)) :
       \E env \in Envs(e, ev) :
          /\ Continue(e, OpOf(pc[e]), InnerRecv(sock[e], loc[e], pc[e], ev, env),
                      NetAfter(e, ev))
          /\ timeouts' = TimeoutsAfter(e, ev)
    /\ UNCHANGED <<out, sent, calls, now, chk, cfg>>

\* what the endpoints and their callers do, over a network that delivers every
\* datagram once and in order
Next ==
    \/ \E e \in Endpoints : Connect(e)
    \/ \E e \in Endpoints : ConnectReceives(e)
    \/ \E e \in Endpoints : UserRecv(e)
    \/ \E e \in Endpoints : UserSendTo(e)
    \/ \E e \in Endpoints : UserClose(e)
    \/ \E e \in Endpoints : CallRecv(e)

\* The initiator sends and closes; the acceptor sends; the reader's buffer is shorter
\* than half a payload; bind drew the largest connection id.
Init ==
    InitWith({Scenario({10}, {7}, {BUF_SIZE}, {1000}, {"c"}, {"c"}),
              Scenario({10}, {7}, {BUF_SIZE}, {1000}, {"s"}, {}),
              Scenario({10}, {7}, {400}, {1000}, {"c"}, {}),
              Scenario({65535}, {7}, {BUF_SIZE}, {1000}, {}, {})})

Spec == Init /\ [][Next]_vars

(***************************************************************************)
(* A peer that writes its packets to the UDP socket itself, as the tests   *)
(* test_socket_unordered_packets and test_duplicate_packet_handling do.    *)
(***************************************************************************)
\* the orders in which k packets can arrive
Orders(k) == {p \in [1..k -> 1..k] : \A i, j \in 1..k : p[i] = p[j] => i = j}

\* the packets of a transfer of k payloads of n bytes by socket s: k Data packets and
\* the closing Fin, numbered from s.seq_nr
RawPackets(s, k, n) ==
    [i \in 1..(k + 1) |->
        [NewPacket EXCEPT !.wnd_size = BUF_SIZE,
                          !.type = IF i <= k THEN "Data" ELSE "Fin",
                          !.connection_id = s.sender_connection_id,
                          !.seq_nr = s.seq_nr + i - 1,
                          !.ack_nr = s.ack_nr,
                          !.payload = IF i <= k THEN Range((i - 1) * n, n) ELSE <<>>]]

\* the initiator, connected, sends a transfer, its packets in some order
RawTransfer(e) ==
    /\ Returned(e, "connect", "Ok") /\ sock[e].state = "Connected"
    /\ \E n \in cfg.sizes, p \in Orders(RawData + 1) :
          /\ net' = [net EXCEPT ![Peer(e)] =
                        @ \o [i \in 1..(RawData + 1) |->
                                 Dgram(sock[e].addr, RawPackets(sock[e], RawData, n)[p[i]])]]
          /\ sent' = [sent EXCEPT ![e] = RawData * n]
    /\ pc' = [pc EXCEPT ![e] = "raw"]
    /\ UNCHANGED <<sock, loc, out, ret, calls, timeouts, now, chk, cfg>>

NextRaw ==
    \/ Tick
    \/ \E e \in Endpoints : Connect(e)
    \/ \E e \in Endpoints : ConnectReceives(e)
    \/ \E e \in Endpoints : UserRecv(e)
    \/ \E e \in Endpoints : RawTransfer(e)

InitRaw == InitWith({Scenario({10}, {7}, {BUF_SIZE}, {3}, {}, {})})

SpecRaw == InitRaw /\ [][NextRaw]_vars

(***************************************************************************)
(* A network that delivers a datagram twice.                               *)
(***************************************************************************)
\* a second copy of a Data datagram on its way to a will arrive after the rest
Duplicates(a) ==
    /\ cfg.dups > 0
    /\ \E i \in 1..Len(net[a]) :
          /\ net[a][i].pkt.type = "Data"
          /\ net' = [net EXCEPT ![a] = Append(@, net[a][i])]
    /\ cfg' = [cfg EXCEPT !.dups = @ - 1]
    /\ UNCHANGED <<sock, pc, loc, out, ret, sent, calls, timeouts, now, chk>>

NextDup ==
    \/ \E e \in Endpoints : Connect(e)
    \/ \E e \in Endpoints : ConnectReceives(e)
    \/ \E e \in Endpoints : UserRecv(e)
    \/ \E e \in Endpoints : UserSendTo(e)
    \/ \E e \in Endpoints : CallRecv(e)
    \/ \E e \in Endpoints : Duplicates(e)

\* The initiator sends; the acceptor, whose first sequence number is the largest, sends.
InitDup ==
    InitWith({[Scenario({10}, {7}, {BUF_SIZE}, {1000}, {"c"}, {}) EXCEPT !.dups = MaxDups],
              [Scenario({10}, {U16 - 1}, {BUF_SIZE}, {1000}, {"s"}, {})
                  EXCEPT !.dups = MaxDups]})

SpecDup == InitDup /\ [][NextDup]_vars

(***************************************************************************)
(* Datagrams from the peer's address that the peer's socket did not send:  *)
(* UDP does not say who wrote a datagram.                                  *)
(***************************************************************************)
\* a header-only packet of kind k for endpoint a: a Reset or a Fin carrying a's
\* connection id, or a State packet carrying an id that is neither of a's
ForgedPacket(a, k) ==
    [NewPacket EXCEPT !.type = k,
                      !.wnd_size = BUF_SIZE,
                      !.connection_id =
                          IF k = "State" THEN Wrap16(sock[a].sender_connection_id + 1)
                          ELSE sock[a].receiver_connection_id]

Forges(a) ==
    /\ sock[a].state # "New"
    /\ \E k \in cfg.forge :
          /\ net' = [net EXCEPT ![a] = Append(@, Dgram(sock[a].connected_to,
                                                       ForgedPacket(a, k)))]
          /\ cfg' = [cfg EXCEPT !.forge = @ \ {k}]
    /\ UNCHANGED <<sock, pc, loc, out, ret, sent, calls, timeouts, now, chk>>

\* the handshake, with forged replies
NextForge ==
    \/ \E e \in Endpoints : Connect(e)
    \/ \E e \in Endpoints : ConnectTimesOut(e)
    \/ \E e \in Endpoints : ConnectReceives(e)
    \/ \E e \in Endpoints : UserRecv(e)
    \/ \E e \in Endpoints : Forges(e)

InitForge ==
    InitWith({[Scenario({10}, {7}, {BUF_SIZE}, {1000}, {}, {}) EXCEPT !.forge = {k}] :
                 k \in {"State", "Fin"}})

SpecForge == InitForge /\ [][NextForge]_vars

\* a connection that a forged Reset may reach
NextReset ==
    \/ \E e \in Endpoints : Connect(e)
    \/ \E e \in Endpoints : ConnectReceives(e)
    \/ \E e \in Endpoints : UserRecv(e)
    \/ \E e \in Endpoints : UserSendTo(e)
    \/ \E e \in Endpoints : UserClose(e)
    \/ \E e \in Endpoints : CallRecv(e)
    \/ \E e \in Endpoints : Forges(e)

InitReset ==
    InitWith({[Scenario({10}, {7}, {BUF_SIZE}, {1000}, {"c"}, {"c"})
                  EXCEPT !.forge = {"Reset"}]})

SpecReset == InitReset /\ [][NextReset]_vars

(***************************************************************************)
(* Properties of the stream, over the in-order network.                    *)
(***************************************************************************)
\* the caller of e has nothing left to read: no datagram waits and nothing is buffered
Drained(e) == net[e] = <<>> /\ pc[e] = "idle" /\ NoPendingData(sock[e])

\* out[e] is the first bytes of the stream the peer of e has sent
InStreamOrder(e) ==
    \/ out[e] = <<>>
    \/ Len(out[e]) = 1 /\ out[e][1].lo = 0 /\ out[e][1].n <= sent[Peer(e)]

\* C1: once send_to(b) has returned at either endpoint and the peer, reading with a
\* buffer a payload long, has nothing left to read, what the peer's recv_from calls
\* returned is exactly b.
C1_SendToReassembled ==
    \A e \in Endpoints :
        (cfg.bufs = {BUF_SIZE} /\ Returned(e, "send_to", "Ok") /\ Drained(Peer(e)))
            => out[Peer(e)] = Range(0, sent[e])

\* the acceptor's send_to has returned, the initiator has read all there is, and has
\* been given nothing
C1_FirstPacketLost ==
    /\ cfg.bufs = {BUF_SIZE} /\ Returned("s", "send_to", "Ok") /\ Drained("c")
    /\ sent["s"] > 0 /\ out["c"] = <<>>

\* C2: with a caller buffer of any size, what recv_from has returned so far is the
\* sender's stream from its first byte on, each byte once and in order.
C2_SmallBufferInOrder == \A e \in Endpoints : InStreamOrder(e)

\* a reader with a buffer of 400 bytes has been given the first 400 bytes twice
C2_FirstBytesTwice ==
    \E e \in Endpoints :
        cfg.bufs = {400} /\ out[e] = <<[lo |-> 0, n |-> 400], [lo |-> 0, n |-> 400]>>

\* C5: when connect has returned success, both endpoints are Connected, the acceptor's
\* peer is the initiator's address and the acceptor's ids mirror the initiator's.
C5_Handshake ==
    Returned("c", "connect", "Ok")
        => /\ sock["c"].state = "Connected"
           /\ sock["s"].state = "Connected"
           /\ sock["s"].connected_to = sock["c"].addr
           /\ sock["s"].receiver_connection_id = Wrap16(sock["s"].sender_connection_id + 1)
           /\ sock["s"].sender_connection_id = sock["c"].receiver_connection_id

\* C3: whatever the order in which the packets of a transfer arrive, the reader does
\* not abort, what its recv_from calls return is the stream in order, and once every
\* packet has arrived it has returned the whole stream and is Closed.
C3_AnyArrivalOrder ==
    \A e \in Endpoints :
        pc[Peer(e)] = "raw"
            => /\ pc[e] # "aborted"
               /\ InStreamOrder(e)
               /\ net[e] = <<>> => /\ out[e] = Range(0, sent[Peer(e)])
                                   /\ sock[e].state = "Closed"

\* the Fin arrived before a Data packet, and the reader aborted on that Data packet
C3_AbortedAfterFin ==
    \E e \in Endpoints :
        pc[Peer(e)] = "raw" /\ pc[e] = "aborted" /\ sock[e].state = "FinReceived"

\* no byte of the stream occurs twice in b
NoByteTwice(b) ==
    \A i, j \in 1..Len(b) :
        i < j => (b[i].lo + b[i].n <= b[j].lo \/ b[j].lo + b[j].n <= b[i].lo)

\* C4: when the network delivers a Data packet a second time, whatever the reader's
\* ack_nr (65535 included), the reader returns no byte twice, and once the sender's
\* send_to has returned and nothing is left to read it has returned the whole stream.
C4_DuplicateOnce ==
    \A e \in Endpoints :
        /\ NoByteTwice(out[e])
        /\ (Returned(Peer(e), "send_to", "Ok") /\ Drained(e))
               => out[e] = Range(0, sent[Peer(e)])

\* a reader whose ack_nr is 65535 has been given the same payload twice
C4_PayloadTwice ==
    \E e \in Endpoints :
        sock[e].ack_nr = U16 - 1 /\ Len(out[e]) = 2 /\ out[e][1] = out[e][2]

C5_Witness ==
    /\ Returned("c", "connect", "Ok")
    /\ sock["s"].state = "Connected"
    /\ sock["c"].receiver_connection_id = U16 - 1

C6_ConnectedOnSuccess ==
    \A e \in Endpoints : Returned(e, "connect", "Ok") => sock[e].state = "Connected"

\* connect has returned success with the socket still in SynSent
C6_SuccessInSynSent ==
    \E e \in Endpoints : Returned(e, "connect", "Ok") /\ sock[e].state = "SynSent"

\* connect at e returns the connection-failed error to its caller in this step
ConnectFails(e) == pc'[e] = "dropped" /\ ret'[e] = Ret("connect", "ConnectionFailed", 0)

\* C7: connect sends at most five Syn packets, and it returns the connection-failed
\* error both when its fifth wait times out and when the reply it receives is not a
\* State packet.
C7_ConnectFailure ==
    [][\A e \in Endpoints :
          pc[e] = "connect"
              => /\ loc[e].attempts <= SYN_ATTEMPTS
                 /\ (ConnectTimesOut(e) /\ loc[e].attempts = SYN_ATTEMPTS) => ConnectFails(e)
                 /\ (ConnectReceives(e) /\ Head(net[e]).pkt.type # "State")
                        => ConnectFails(e)]_vars

\* connect has sent five Syn packets, none was answered, and it aborted
C7_AbortedAfterFive ==
    \E e \in Endpoints :
        /\ pc[e] = "aborted" /\ ret[e] = Ret("connect", "panic", 0)
        /\ Len(net[Peer(e)]) = SYN_ATTEMPTS /\ sock[Peer(e)].state = "New"

\* the results that are errors returned to the caller
Errors == {"Closed", "EndOfFile", "ConnectionReset", "ConnectionFailed"}

\* a recv_from of e, its caller's or one inside send_to or close, takes a Reset packet
\* that carries one of e's connection ids
TakesReset(e) ==
    /\ UserRecv(e) \/ CallRecv(e)
    /\ net[e] # <<>> /\ Len(net'[e]) < Len(net[e])
    /\ Head(net[e]).pkt.type = "Reset"
    /\ Head(net[e]).pkt.connection_id
           \in {sock[e].receiver_connection_id, sock[e].sender_connection_id}

\* a call of recv_from, send_to or close at e ends in this step
CallEnds(e) ==
    /\ UserRecv(e) \/ UserSendTo(e) \/ UserClose(e) \/ CallRecv(e)
    /\ pc'[e] \in {"idle", "aborted"}

\* C10: taking a Reset that carries one of the endpoint's ids sets the state to
\* ResetReceived and the call returns the connection-reset error; from then on the
\* state stays ResetReceived and every call that ends returns an error.
C10_ResetReceived ==
    [][\A e \in Endpoints :
          /\ TakesReset(e) => /\ sock'[e].state = "ResetReceived"
                              /\ ret'[e].res = "ConnectionReset"
          /\ sock[e].state = "ResetReceived"
                 => /\ sock'[e].state = "ResetReceived"
                    /\ CallEnds(e) => ret'[e].res \in Errors]_vars

\* an endpoint that took a Reset has since called close, which sent a Fin and left
\* the socket in FinSent
C10_CloseLeftReset ==
    \E e \in Endpoints :
        /\ ret[e] = Ret("recv_from", "ConnectionReset", 0)
        /\ pc[e] = "close_fin" /\ sock[e].state = "FinSent"

(***************************************************************************)
(* Datagrams of another connection: their connection id is none of the     *)
(* receiver's.                                                             *)
(***************************************************************************)
\* a packet of kind k that reaches endpoint a with a connection id that is neither of
\* a's, numbered as the next packet a expects; a Data packet carries bytes that are
\* not of the peer's stream (they lie beyond every stream sent here)
StrayPacket(a, k) ==
    [NewPacket EXCEPT !.type = k,
                      !.wnd_size = MSS,
                      !.connection_id = Wrap16(sock[a].sender_connection_id + 2),
                      !.seq_nr = Wrap16(sock[a].ack_nr + 1),
                      !.payload = IF k = "Data" THEN Range(BUF_SIZE, HEADER_SIZE) ELSE <<>>]

Strays(a) ==
    /\ sock[a].state = "Connected"
    /\ \E k \in cfg.forge :
          /\ net' = [net EXCEPT ![a] = Append(@, Dgram(sock[a].connected_to,
                                                       StrayPacket(a, k)))]
          /\ cfg' = [cfg EXCEPT !.forge = @ \ {k}]
    /\ UNCHANGED <<sock, pc, loc, out, ret, sent, calls, timeouts, now, chk>>

NextStray ==
    \/ \E e \in Endpoints : Connect(e)
    \/ \E e \in Endpoints : ConnectReceives(e)
    \/ \E e \in Endpoints : UserRecv(e)
    \/ \E e \in Endpoints : UserSendTo(e)
    \/ \E e \in Endpoints : CallRecv(e)
    \/ \E e \in Endpoints : Strays(e)

InitStray ==
    InitWith({[Scenario({10}, {7}, {BUF_SIZE}, {1000}, {"c"}, {}) EXCEPT !.forge = {k}] :
                 k \in {"Data", "State", "Fin"}})

SpecStray == InitStray /\ [][NextStray]_vars

\* packet p carries a connection id that is neither of socket s's
ForeignId(s, p) ==
    p.connection_id \notin {s.sender_connection_id, s.receiver_connection_id}

\* a recv_from of e, its caller's or one inside send_to, takes a packet with a foreign
\* connection id (no Syn reaches a socket in New here)
TakesForeign(e) ==
    /\ UserRecv(e) \/ CallRecv(e)
    /\ net[e] # <<>> /\ Len(net'[e]) < Len(net[e])
    /\ sock[e].state # "New"
    /\ ForeignId(sock[e], Head(net[e]).pkt)

\* what C11 says a foreign packet leaves alone
Untouched(s) ==
    <<s.state, s.ack_nr, s.seq_nr, s.remote_wnd_size, s.incoming_buffer, s.pending_data,
      s.send_window>>

\* C11: a recv_from that takes a packet with a foreign connection id sends exactly one
\* packet, a Reset, to where the packet came from, returns no bytes, and leaves state,
\* ack_nr, seq_nr, remote_wnd_size, the reorder buffer, pending data and the send
\* window as they were.
C11_ForeignIdIgnored ==
    [][\A e \in Endpoints :
          TakesForeign(e)
              => /\ Untouched(sock'[e]) = Untouched(sock[e])
                 /\ out' = out
                 /\ Len(net'[Peer(e)]) = Len(net[Peer(e)]) + 1
                 /\ net'[Peer(e)][Len(net'[Peer(e)])].pkt.type = "Reset"]_vars

\* the caller of an endpoint has been given the bytes of a Data packet of another
\* connection
C11_StrayBytesReturned ==
    \E e \in Endpoints : \E i \in 1..Len(out[e]) : out[e][i].lo >= BUF_SIZE

(***************************************************************************)
(* Sequence numbers that pass 65535: the acceptor, whose first sequence    *)
(* number is the random number it draws, sends and closes.                 *)
(***************************************************************************)
\* The acceptor draws 65535 and sends two packets (65535 and 0), or one packet (65535).
InitWrap ==
    InitWith({Scenario({10}, {U16 - 1}, {BUF_SIZE}, {n}, {"s"}, {"s"}) :
                 n \in {MSS, MSS - HEADER_SIZE}})

SpecWrap == InitWrap /\ [][Next]_vars

\* C12: whenever send_to has returned success, no Data packet it composed is left in
\* the unsent queue or in the send window, whatever the sequence number it began with.
C12_SendToAcked ==
    \A e \in Endpoints :
        Returned(e, "send_to", "Ok")
            => sock[e].unsent_queue = <<>> /\ sock[e].send_window = <<>>

\* send_to, begun at sequence number 65535, has returned success with its two Data
\* packets unacknowledged in the send window and both still on their way
C12_ReturnedUnacked ==
    \E e \in Endpoints :
        /\ Returned(e, "send_to", "Ok")
        /\ Len(sock[e].send_window) = 2 /\ sock[e].send_window[1].seq_nr = U16 - 1
        /\ Len(net[Peer(e)]) = 2

(***************************************************************************)
(* close, with a peer that only reads.                                     *)
(***************************************************************************)
\* The initiator sends 1000 bytes and closes, and the acceptor reads with 400-byte
\* buffers; the acceptor sends and closes, and the initiator reads.
InitClose ==
    InitWith({Scenario({10}, {7}, {400}, {1000}, {"c"}, {"c"}),
              Scenario({10}, {7}, {BUF_SIZE}, {1000}, {"s"}, {"s"})})

SpecClose == InitClose /\ [][Next]_vars

\* Every recv_from of e, now and from now on, returns bytes from flush_incoming_buffer
\* and so never reads the UDP socket: more bytes are pending than the caller's buffer
\* holds, and the packet at the head of the reorder buffer, which is the one ack_nr
\* names, is copied from its start again and adds more to the pending bytes than the
\* call took from them.
NeverReads(e) ==
    /\ sock[e].state \notin {"Closed", "ResetReceived"}
    /\ sock[e].incoming_buffer # <<>>
    /\ sock[e].ack_nr = Head(sock[e].incoming_buffer).seq_nr
    /\ \A n \in cfg.bufs :
          /\ BLen(sock[e].pending_data) > n
          /\ BLen(Head(sock[e].incoming_buffer).payload) >= 2 * n

\* a recv_from of an endpoint that never reads leaves it so and takes no datagram
NeverReadsIsStable ==
    [][\A e \in Endpoints :
          (NeverReads(e) /\ UserRecv(e)) => (NeverReads(e)' /\ net' = net)]_vars

\* C13: over the in-order network, with the peer calling recv_from again and again,
\* close terminates: while close at an endpoint waits, its peer is never in a state
\* from which no recv_from will read the Fin or answer it; and when close has
\* returned success, the endpoint and its peer are both Closed.
C13_CloseTerminates ==
    \A e \in Endpoints :
        /\ pc[e] \in {"close_drain", "close_fin"} => ~NeverReads(Peer(e))
        /\ Returned(e, "close", "Ok")
               => sock[e].state = "Closed" /\ sock[Peer(e)].state = "Closed"

\* close has sent its Fin and waits; the Fin is the next datagram of the peer, whose
\* recv_from calls have returned 400 bytes three times and never read the socket again
C13_FinNeverRead ==
    \E e \in Endpoints :
        /\ pc[e] = "close_fin" /\ sock[e].state = "FinSent"
        /\ net[Peer(e)] # <<>> /\ Head(net[Peer(e)]).pkt.type = "Fin"
        /\ NeverReads(Peer(e)) /\ Len(out[Peer(e)]) = 3

(***************************************************************************)
(* A network that loses Data datagrams, and then delivers every datagram.  *)
(***************************************************************************)
\* a Data datagram on its way to a is lost
Drops(a) ==
    /\ cfg.drops > 0
    /\ \E i \in 1..Len(net[a]) :
          /\ net[a][i].pkt.type = "Data"
          /\ net' = [net EXCEPT ![a] = SubSeq(@, 1, i - 1) \o SubSeq(@, i + 1, Len(@))]
    /\ cfg' = [cfg EXCEPT !.drops = @ - 1]
    /\ UNCHANGED <<sock, pc, loc, out, ret, sent, calls, timeouts, now, chk>>

NextLoss ==
    \/ \E e \in Endpoints : Connect(e)
    \/ \E e \in Endpoints : ConnectReceives(e)
    \/ \E e \in Endpoints : UserRecv(e)
    \/ \E e \in Endpoints : UserSendTo(e)
    \/ \E e \in Endpoints : CallRecv(e)
    \/ \E e \in Endpoints : Drops(e)

\* The initiator sends 1000 bytes; its Data packet and a retransmission may be lost.
InitLoss ==
    InitWith({[Scenario({10}, {7}, {BUF_SIZE}, {1000}, {"c"}, {})
                  EXCEPT !.drops = MaxDrops, !.timeouts = LossTimeouts]})

SpecLoss == InitLoss /\ [][NextLoss]_vars

\* The reader e will never be given what its peer's send_to waits to have acknowledged:
\* the network loses nothing more, no Data packet is on its way to e or in its reorder
\* buffer, the sender has every packet composed and sent, and it has counted three
\* acknowledgments of last_acked or more, so that each further one, which is all e's
\* timeouts send, is counted past three and resends nothing.
NoRecovery(e) ==
    /\ cfg.drops = 0
    /\ pc[Peer(e)] = "send_ack" /\ pc[e] = "idle"
    /\ sock[Peer(e)].unsent_queue = <<>> /\ sock[Peer(e)].send_window # <<>>
    /\ sock[Peer(e)].duplicate_ack_count >= 3
    /\ sock[e].state = "Connected" /\ sock[e].incoming_buffer = <<>>
    /\ sock[e].ack_nr = sock[Peer(e)].last_acked
    /\ Wrap16(sock[Peer(e)].seq_nr - sock[e].ack_nr) # 1
    /\ out[e] # Range(0, sent[Peer(e)])
    /\ \A i \in 1..Len(net[e]) :
          /\ net[e][i].pkt.type = "State"
          /\ Wrap16(net[e][i].pkt.seq_nr - sock[e].ack_nr) # 1
    /\ \A i \in 1..Len(net[Peer(e)]) :
          /\ net[Peer(e)][i].pkt.type = "State"
          /\ net[Peer(e)][i].pkt.ack_nr = sock[Peer(e)].last_acked
          /\ net[Peer(e)][i].pkt.sack = <<>>

\* no step leads out of NoRecovery
NoRecoveryIsStable == [][\A e \in Endpoints : NoRecovery(e) => NoRecovery(e)']_vars

\* C14: a recv_from that times out returns zero bytes, and after the network has lost
\* Data datagrams (a retransmission included) and loses no more, the reader is never
\* left in a state from which it will not be given the lost payload.
C14_TimeoutRecovery ==
    [][\A e \in Endpoints :
          /\ (UserRecv(e) /\ timeouts'[e] # timeouts[e])
                 => ret'[e] = Ret("recv_from", "Ok", 0)
          /\ ~NoRecovery(e)']_vars

\* the Data packet and its retransmission were lost; the reader's three timeouts have
\* sent nine acknowledgments, the sender has counted them all, and nothing is in flight
C14_RetransmissionLost ==
    \E e \in Endpoints :
        /\ NoRecovery(e) /\ timeouts[e] = LossTimeouts
        /\ net[e] = <<>> /\ net[Peer(e)] = <<>>
        /\ sock[Peer(e)].duplicate_ack_count = 3 * LossTimeouts

\* C15: a transfer whose sequence numbers pass from 65535 to 0 goes as any other: no
\* endpoint aborts, the reader returns the sender's bytes in order, and once the
\* sender's close has returned and the reader has nothing left to read, the reader has
\* returned every byte and is Closed.
C15_RolloverTransfer ==
    \A e \in Endpoints :
        /\ pc[e] # "aborted"
        /\ InStreamOrder(e)
        /\ (Returned(Peer(e), "close", "Ok") /\ Drained(e))
               => out[e] = Range(0, sent[Peer(e)]) /\ sock[e].state = "Closed"

\* in a build with overflow checks, the send_to that composed packet 65535 aborted
\* when seq_nr had stepped to 0
C15_AbortedAtZero ==
    \E e \in Endpoints :
        /\ chk /\ pc[e] = "aborted" /\ ret[e] = Ret("send_to", "panic", 0)
        /\ sock[e].seq_nr = 0

(***************************************************************************)
(* The connection ids.                                                     *)
(***************************************************************************)
\* The handshake with the ids 10 and 65535, with repeated Syn packets and forged ones.
InitIds ==
    InitWith({[Scenario({i}, {7}, {BUF_SIZE}, {1000}, {}, {}) EXCEPT !.forge = {k}] :
                 i \in {10, U16 - 1}, k \in {"State", "Fin"}})

SpecIds == InitIds /\ [][NextForge]_vars

\* the two ids of socket s
Ids(s) == <<s.receiver_connection_id, s.sender_connection_id>>

\* C16: the initiator's send id is its receive id plus one modulo 2^16 in every
\* state; once the acceptor has accepted a Syn, its receive id is its send id plus one
\* modulo 2^16 and its send id is the id the Syn carried (the initiator's receive id);
\* and no step of a socket that has left New changes either of its ids.
C16_ConnectionIds ==
    /\ [](/\ sock["c"].sender_connection_id = Wrap16(sock["c"].receiver_connection_id + 1)
          /\ sock["s"].state # "New"
                 => /\ sock["s"].receiver_connection_id
                           = Wrap16(sock["s"].sender_connection_id + 1)
                    /\ sock["s"].sender_connection_id = sock["c"].receiver_connection_id)
    /\ [][\A e \in Endpoints : sock[e].state # "New" => Ids(sock'[e]) = Ids(sock[e])]_vars

\* the acceptor accepted a Syn that carried the id 65535, and has since taken a Fin
C16_Witness ==
    /\ Ids(sock["c"]) = <<U16 - 1, 0>>
    /\ Ids(sock["s"]) = <<0, U16 - 1>>
    /\ sock["s"].state = "FinReceived"

(***************************************************************************)
(* The send window.                                                        *)
(***************************************************************************)
\* The initiator sends three packets, the third of which waits in send() for room in
\* the window, and closes; the acceptor sends two packets numbered 65535 and 0.
InitWindow ==
    InitWith({Scenario({10}, {7}, {BUF_SIZE}, {2 * (MSS - HEADER_SIZE) + 1}, {"c"}, {"c"}),
              Scenario({10}, {U16 - 1}, {BUF_SIZE}, {MSS}, {"s"}, {})})

SpecWindow == InitWindow /\ [][Next]_vars

\* C17: in every state, curr_window is the sum of the lengths of the packets in the
\* send window.
C17_CurrWindow ==
    \A e \in Endpoints : sock[e].curr_window = SumLen(sock[e].send_window)

\* of three packets sent, two have been acknowledged and removed and one remains
C17_Witness ==
    \E e \in Endpoints :
        /\ pc[e] = "send_ack" /\ sent[e] = 2 * (MSS - HEADER_SIZE) + 1
        /\ Len(sock[e].send_window) = 1 /\ sock[e].curr_window = HEADER_SIZE + 1

(***************************************************************************)
(* The congestion window and the congestion timeout.                       *)
(***************************************************************************)
\* C18: in every state, after a receive timeout and after a loss included, cwnd is at
\* least MIN_CWND * MSS.
C18_CwndFloor == \A e \in Endpoints : sock[e].cwnd >= MIN_CWND * MSS

\* a recv_from has timed out and left cwnd at one MSS
C18_CwndOneMss ==
    \E e \in Endpoints :
        /\ timeouts[e] = 1 /\ ret[e] = Ret("recv_from", "Ok", 0)
        /\ sock[e].cwnd = MSS

\* a connection on which nothing is sent: the receives of the acceptor time out
NextIdle ==
    \/ \E e \in Endpoints : Connect(e)
    \/ \E e \in Endpoints : ConnectReceives(e)
    \/ \E e \in Endpoints : UserRecv(e)

InitIdle ==
    InitWith({[Scenario({10}, {7}, {BUF_SIZE}, {1000}, {}, {})
                  EXCEPT !.timeouts = IdleTimeouts, !.timers = {"s"}]})

SpecIdle == InitIdle /\ [][NextIdle]_vars

\* C19: in every state, after any number of receive timeouts in a row and any State
\* packets, congestion_timeout is at least 500 and at most 60000 milliseconds.
C19_TimeoutBounds ==
    \A e \in Endpoints :
        /\ MIN_CONGESTION_TIMEOUT <= sock[e].congestion_timeout
        /\ sock[e].congestion_timeout <= MAX_CONGESTION_TIMEOUT

\* six receives in a row have timed out and doubled the first timeout to 64000
C19_SixTimeouts ==
    \E e \in Endpoints :
        /\ timeouts[e] = IdleTimeouts
        /\ sock[e].congestion_timeout = 64 * INITIAL_CONGESTION_TIMEOUT

(***************************************************************************)
(* The steps of seq_nr.                                                    *)
(***************************************************************************)
\* close at e sends its Fin in this step
SendsFin(e) ==
    /\ UserClose(e) \/ CallRecv(e)
    /\ sock[e].state # "FinSent" /\ sock'[e].state = "FinSent"

\* C20: a recv_from of a connected socket, which composes and sends the State replies,
\* leaves seq_nr as it was; a send_to adds to seq_nr the number of Data packets it
\* composed, modulo 2^16; and the step of close that sends the Fin adds one, modulo
\* 2^16.
C20_SeqNrSteps ==
    [][\A e \in Endpoints :
          /\ (UserRecv(e) /\ sock[e].state # "New") => sock'[e].seq_nr = sock[e].seq_nr
          /\ UserSendTo(e)
                 => sock'[e].seq_nr
                        = Wrap16(sock[e].seq_nr
                                   + Len(Chunks(sent[e], sent'[e] - sent[e],
                                                MSS - HEADER_SIZE)))
          /\ SendsFin(e) => sock'[e].seq_nr = Wrap16(sock[e].seq_nr + 1)]_vars

\* close has sent its Fin, which is on its way, and seq_nr is still the number the
\* Fin carries
C20_FinKeptSeqNr ==
    \E e \in Endpoints :
        /\ pc[e] = "close_fin" /\ sock[e].state = "FinSent"
        /\ net[Peer(e)] # <<>>
        /\ net[Peer(e)][Len(net[Peer(e)])].pkt.type = "Fin"
        /\ net[Peer(e)][Len(net[Peer(e)])].pkt.seq_nr = sock[e].seq_nr

(***************************************************************************)
(* The steps of ack_nr.                                                    *)
(***************************************************************************)
\* a recv_from of e, its caller's or one inside send_to or close, returns or aborts
\* in this step
Receives(e) == UserRecv(e) \/ CallRecv(e)

\* by how much this step advances the ack_nr of e, modulo 2^16
AckSteps(e) == Wrap16(sock'[e].ack_nr - sock[e].ack_nr)

BufferPackets ==
    {[NewPacket EXCEPT !.seq_nr = q, !.timestamp = t] : q \in 1..MaxSeqNr, t \in 0..MaxStamp}

\* the caller of e passes the next packet of its script to insert_into_buffer
InsertsPacket(e) ==
    /\ e = "s" /\ sock[e].state = "New" /\ calls[e] < Len(cfg.script)
    /\ sock' = [sock EXCEPT ![e].incoming_buffer =
                                InsertIntoBuffer(@, cfg.script[calls[e] + 1])]
    /\ calls' = [calls EXCEPT ![e] = @ + 1]
    /\ UNCHANGED <<pc, loc, net, out, ret, sent, timeouts, now, chk, cfg>>

\* the caller of e calls advance_incoming_buffer, which removes the head
RemovesHead(e) ==
    /\ e = "s" /\ sock[e].state = "New" /\ cfg.script # <<>>
    /\ sock[e].incoming_buffer # <<>>
    /\ sock' = [sock EXCEPT ![e] = AdvanceIncomingBuffer(@)]
    /\ UNCHANGED <<pc, loc, net, out, ret, sent, calls, timeouts, now, chk, cfg>>

NextBuffer ==
    \/ \E e \in Endpoints : InsertsPacket(e)
    \/ \E e \in Endpoints : RemovesHead(e)

\* every script of MaxInserts packets
InitBuffer ==
    InitWith({[Scenario({10}, {7}, {BUF_SIZE}, {1000}, {}, {}) EXCEPT !.script = sc] :
                 sc \in [1..MaxInserts -> BufferPackets]})

SpecBuffer == InitBuffer /\ [][NextBuffer]_vars

\* buffer ib is strictly ascending in seq_nr
StrictlyAscending(ib) == \A i \in 1..(Len(ib) - 1) : ib[i].seq_nr < ib[i + 1].seq_nr

\* the packet that the insert_into_buffer of this step is passed
Inserted(e) == cfg.script[calls[e] + 1]

\* C22: in every state the reorder buffer is strictly ascending in seq_nr, so that no
\* two entries share a sequence number, whatever the order of the inserts and with
\* duplicates and head removals among them; and an insert of a packet whose number is
\* in the buffer leaves the buffer's length as it was.
C22_BufferAscending ==
    /\ [](\A e \in Endpoints : StrictlyAscending(sock[e].incoming_buffer))
    /\ [][\A e \in Endpoints :
             (InsertsPacket(e)
                 /\ FindSeq(sock[e].incoming_buffer, Inserted(e).seq_nr, 1) # 0)
                 => Len(sock'[e].incoming_buffer) = Len(sock[e].incoming_buffer)]_vars

\* packets 3, 1 and 3 again were inserted and the head, 1, was removed
C22_Witness ==
    \E e \in Endpoints :
        /\ calls[e] = 3
        /\ cfg.script[1].seq_nr = 3 /\ cfg.script[2].seq_nr = 1 /\ cfg.script[3].seq_nr = 3
        /\ sock[e].ack_nr = 1
        /\ Len(sock[e].incoming_buffer) = 1 /\ sock[e].incoming_buffer[1].seq_nr = 3

\* C23: when a packet is inserted whose sequence number is in the reorder buffer, the
\* entry kept for that number is the one with the larger send timestamp: a newer
\* duplicate replaces the stored packet, an older one does not.
C23_NewerDuplicateKept ==
    [][\A e \in Endpoints :
          InsertsPacket(e)
              => LET i == FindSeq(sock[e].incoming_buffer, Inserted(e).seq_nr, 1)
                     j == FindSeq(sock'[e].incoming_buffer, Inserted(e).seq_nr, 1)
                 IN i # 0 => /\ j # 0
                             /\ sock'[e].incoming_buffer[j].timestamp
                                    = Max(Inserted(e).timestamp,
                                          sock[e].incoming_buffer[i].timestamp)]_vars

\* a packet was inserted, then a duplicate of it with a smaller timestamp, and the
\* buffer holds the duplicate
C23_OlderDuplicateKept ==
    \E e \in Endpoints :
        /\ calls[e] = 2
        /\ cfg.script[1].seq_nr = cfg.script[2].seq_nr
        /\ cfg.script[1].timestamp > cfg.script[2].timestamp
        /\ sock[e].incoming_buffer = <<cfg.script[2]>>

(***************************************************************************)
(* Acknowledgments: the State packets a socket receives.                   *)
(***************************************************************************)
\* sequence number a follows b in the order of 16-bit sequence numbers
Follows(a, b) == Wrap16(a - b) \in 1..(U16 \div 2 - 1)

\* a recv_from of e takes, in this step, a State packet that carries one of e's
\* connection ids, in state st
TakesState(e, st) ==
    /\ Receives(e)
    /\ net[e] # <<>> /\ Len(net'[e]) < Len(net[e])
    /\ sock[e].state = st
    /\ Head(net[e]).pkt.type = "State"
    /\ ~ForeignId(sock[e], Head(net[e]).pkt)

\* the datagrams that e sends in this step
SentNow(e) == SubSeq(net'[Peer(e)], Len(net[Peer(e)]) + 1, Len(net'[Peer(e)]))

\* packet p of the send window is among the datagrams ds, with its number and payload
Retransmitted(ds, p) ==
    \E i \in 1..Len(ds) :
        /\ ds[i].pkt.type = p.type
        /\ ds[i].pkt.seq_nr = p.seq_nr
        /\ ds[i].pkt.payload = p.payload

\* the State packet taken in this step is the third acknowledgment of last_acked in a
\* row, and packets are in flight
ThirdDuplicate(e) ==
    /\ TakesState(e, "Connected")
    /\ sock[e].send_window # <<>>
    /\ sock[e].duplicate_ack_count = 2
    /\ Head(net[e]).pkt.ack_nr = sock[e].last_acked

\* C24: when a State packet makes duplicate_ack_count reach 3 while the send window is
\* not empty, every packet of the send window whose sequence number follows the State
\* packet's ack_nr, in the order of 16-bit sequence numbers, is sent again with its
\* seq_nr and payload, and cwnd becomes max(cwnd / 2, MIN_CWND * MSS).
C24_TripleAckResends ==
    [][\A e \in Endpoints :
          ThirdDuplicate(e)
              => /\ sock'[e].duplicate_ack_count = 3
                 /\ \A i \in 1..Len(sock[e].send_window) :
                       Follows(sock[e].send_window[i].seq_nr, Head(net[e]).pkt.ack_nr)
                           => Retransmitted(SentNow(e), sock[e].send_window[i])
                 /\ sock'[e].cwnd = Max(sock[e].cwnd \div 2, MIN_CWND * MSS)]_vars

\* the sender has counted three acknowledgments of 65535 with packet 0 in its send
\* window, and has not sent it again: the peer has not taken it yet, and it is on its
\* way to the peer once
C24_NothingResent ==
    \E e \in Endpoints :
        /\ sock[e].duplicate_ack_count = 3 /\ sock[e].last_acked = U16 - 1
        /\ Len(sock[e].send_window) = 1 /\ sock[e].send_window[1].seq_nr = 0
        /\ sock[Peer(e)].ack_nr = U16 - 1
        /\ Cardinality({i \in 1..Len(net[Peer(e)]) :
                            /\ net[Peer(e)][i].pkt.type = "Data"
                            /\ net[Peer(e)][i].pkt.seq_nr = 0}) = 1

\* the State packet taken in this step is a keep-alive: it has no extension, and the
\* send window is empty
TakesKeepAlive(e) ==
    /\ TakesState(e, "Connected")
    /\ Head(net[e]).pkt.sack = <<>>
    /\ sock[e].send_window = <<>>

\* C25: a State packet without extension received in Connected while the send window
\* is empty, however many like it were received before, makes the socket send nothing
\* (no reply, no retransmission) and does not lower cwnd.
C25_KeepAliveIgnored ==
    [][\A e \in Endpoints :
          TakesKeepAlive(e)
              => /\ SentNow(e) = <<>>
                 /\ sock'[e].send_window = <<>>
                 /\ sock'[e].cwnd >= sock[e].cwnd]_vars

\* the initiator has taken every State packet that the acceptor's timeouts sent, three
\* for each, all alike, and the acceptor has been sent nothing since the Syn
C25_Witness ==
    /\ sock["c"].state = "Connected" /\ sock["c"].send_window = <<>>
    /\ timeouts["s"] = IdleTimeouts
    /\ sock["c"].duplicate_ack_count = 3 * IdleTimeouts
    /\ net["c"] = <<>> /\ net["s"] = <<>>

\* C26: a State packet consumes no sequence number: a recv_from that takes a State
\* packet in Connected or FinSent leaves ack_nr as it was.
C26_StateKeepsAckNr ==
    [][\A e \in Endpoints :
          (TakesState(e, "Connected") \/ TakesState(e, "FinSent"))
              => sock'[e].ack_nr = sock[e].ack_nr]_vars

\* the initiator has sent the Syn (number 1) and then no Data packet and no Fin, only
\* the State packets of a timeout, and the acceptor's ack_nr has moved on to the number
\* that the initiator's first Data packet will carry
C26_AckNrAfterState ==
    /\ sock["s"].state = "Connected" /\ sock["c"].state = "Connected"
    /\ sent["c"] = 0 /\ calls["c"] = 0 /\ timeouts["c"] = 1
    /\ sock["c"].seq_nr = 2 /\ sock["s"].ack_nr = 2

(***************************************************************************)
(* A Syn that a peer writes to the UDP socket itself, as                   *)
(* test_socket_should_not_buffer_syn_packets does: its connection id, its  *)
(* sequence number and its timestamp are the peer's choice.                *)
(***************************************************************************)
SynIds == {10, U16 - 1}
SynSeqs == {0, 1, 15089, U16 - 1}

RawSyn(e) ==
    /\ e = "c" /\ pc[e] = "idle" /\ sock[e].state = "New"
    /\ \E id \in SynIds, q \in SynSeqs, t \in 0..MaxNow :
          net' = [net EXCEPT ![Peer(e)] =
                     Append(@, Dgram(sock[e].addr,
                                     [NewPacket EXCEPT !.type = "Syn",
                                                       !.wnd_size = BUF_SIZE,
                                                       !.connection_id = id,
                                                       !.seq_nr = q,
                                                       !.timestamp = t]))]
    /\ pc' = [pc EXCEPT ![e] = "raw"]
    /\ UNCHANGED <<sock, loc, out, ret, sent, calls, timeouts, now, chk, cfg>>

NextSyn ==
    \/ Tick
    \/ \E e \in Endpoints : RawSyn(e)
    \/ \E e \in Endpoints : UserRecv(e)

InitSyn == InitWith({Scenario({10}, {7, U16 - 1}, {HEADER_SIZE, BUF_SIZE}, {1000}, {}, {})})

SpecSyn == InitSyn /\ [][NextSyn]_vars

\* the recv_from of e takes, in this step, a Syn in state New
TakesSyn(e) ==
    /\ UserRecv(e)
    /\ net[e] # <<>> /\ Len(net'[e]) < Len(net[e])
    /\ sock[e].state = "New"
    /\ Head(net[e]).pkt.type = "Syn"

\* C27: a Syn received in state New is answered with one State packet that has no
\* payload, carries the Syn's connection id and has ack_nr equal to the Syn's seq_nr;
\* the endpoint adopts the sender as its peer, sets ack_nr to the Syn's seq_nr, becomes
\* Connected, and does not put the Syn in the reorder buffer.
C27_SynAccepted ==
    [][\A e \in Endpoints :
          TakesSyn(e)
              => LET syn == Head(net[e]) IN
                 /\ Len(SentNow(e)) = 1
                 /\ SentNow(e)[1].pkt.type = "State"
                 /\ SentNow(e)[1].pkt.payload = <<>>
                 /\ SentNow(e)[1].pkt.connection_id = syn.pkt.connection_id
                 /\ SentNow(e)[1].pkt.ack_nr = syn.pkt.seq_nr
                 /\ sock'[e].connected_to = syn.src
                 /\ sock'[e].ack_nr = syn.pkt.seq_nr
                 /\ sock'[e].state = "Connected"
                 /\ sock'[e].incoming_buffer = <<>>]_vars

\* in a build with overflow checks, the recv_from that took a Syn with connection id
\* 65535 aborted: the socket is still New, and no reply was sent
C27_AbortedOnSyn ==
    \E e \in Endpoints :
        /\ chk /\ pc[e] = "aborted" /\ ret[e] = Ret("recv_from", "panic", 0)
        /\ sock[e].state = "New" /\ sock[e].ack_nr = 15089
        /\ net[e] = <<>> /\ net[Peer(e)] = <<>>

(***************************************************************************)
(* A receive that times out.                                               *)
(***************************************************************************)
\* the UDP socket's recv_from, inside a recv_from of e, times out in this step
TimesOut(e) == Receives(e) /\ timeouts'[e] # timeouts[e]

\* datagram d is a State packet to the peer of socket s carrying s's ack_nr and seq_nr
ResendRequest(d, s) ==
    /\ d.pkt.type = "State" /\ d.pkt.payload = <<>> /\ d.pkt.sack = <<>>
    /\ d.pkt.ack_nr = s.ack_nr /\ d.pkt.seq_nr = s.seq_nr
    /\ d.pkt.connection_id = s.sender_connection_id

\* C28: when the datagram receive inside recv_from times out, the call returns
\* success with zero bytes; of the socket it changes congestion_timeout, which it
\* doubles, and cwnd, which it sets to MSS, and nothing else (state, seq_nr, ack_nr,
\* the reorder buffer, pending data, the send window, curr_window); and it sends
\* exactly three State packets that carry the current ack_nr and seq_nr, with data in
\* flight or without.
C28_TimeoutEffect ==
    [][\A e \in Endpoints :
          TimesOut(e)
              => /\ UserRecv(e) => (ret'[e] = Ret("recv_from", "Ok", 0) /\ out' = out)
                 /\ pc'[e] = pc[e]
                 /\ sock'[e] = [sock[e] EXCEPT !.congestion_timeout = 2 * @, !.cwnd = MSS]
                 /\ Len(SentNow(e)) = 3
                 /\ \A i \in 1..3 : ResendRequest(SentNow(e)[i], sock[e])]_vars

\* a receive inside send_to has timed out with a Data packet in flight, and its three
\* State packets are the last that were sent to the peer
C28_Witness ==
    \E e \in Endpoints :
        /\ timeouts[e] = 1 /\ sock[e].cwnd = MSS
        /\ sock[e].congestion_timeout = 2 * INITIAL_CONGESTION_TIMEOUT
        /\ Len(net[Peer(e)]) >= 3
        /\ \A i \in 0..2 : ResendRequest(net[Peer(e)][Len(net[Peer(e)]) - i], sock[e])
        /\ pc[e] = "send_ack" /\ sock[e].send_window # <<>>

(***************************************************************************)
(* Selective acknowledgments, with a peer that writes its Data packets to  *)
(* the UDP socket itself and leaves some out, as test_correct_packet_loss  *)
(* does: the packet after the last one acknowledged never arrives.         *)
(***************************************************************************)
\* how far ahead of the reader's ack_nr the peer's Data packets are numbered
GapOffsets == {2, 3, 11, 19}

\* the peer of a connected socket sends it a Data packet numbered ahead of its ack_nr
RawSends(e) ==
    /\ pc[e] = "raw" /\ sock[Peer(e)].state = "Connected" /\ calls[e] < MaxInserts
    /\ \E d \in GapOffsets :
          net' = [net EXCEPT ![Peer(e)] =
                     Append(@, Dgram(sock[e].addr,
                                     [NewPacket EXCEPT
                                         !.type = "Data",
                                         !.wnd_size = BUF_SIZE,
                                         !.connection_id =
                                             sock[Peer(e)].receiver_connection_id,
                                         !.seq_nr = Wrap16(sock[Peer(e)].ack_nr + d),
                                         !.payload = Range(d, 1)]))]
    /\ calls' = [calls EXCEPT ![e] = @ + 1]
    /\ UNCHANGED <<sock, pc, loc, out, ret, sent, timeouts, now, chk, cfg>>

NextSack ==
    \/ \E e \in Endpoints : RawSyn(e)
    \/ \E e \in Endpoints : RawSends(e)
    \/ \E e \in Endpoints : UserRecv(e)

InitSack == InitWith({Scenario({10}, {7}, {BUF_SIZE}, {1000}, {}, {})})

SpecSack == InitSack /\ [][NextSack]_vars

\* sack is the bitmap of the numbers above ack_nr in buffer ib: its length is a
\* multiple of 4, bit (q - ack_nr - 2) mod 8 of byte (q - ack_nr - 2) div 8 is set for
\* each such number q, and no other bit is
IsBitmapOf(sack, ib, ack_nr) ==
    /\ Len(sack) % 4 = 0
    /\ \A i \in 1..Len(ib) :
          ib[i].seq_nr > ack_nr
              => /\ (ib[i].seq_nr - ack_nr - 2) \div 8 < Len(sack)
                 /\ (ib[i].seq_nr - ack_nr - 2) % 8
                        \in sack[(ib[i].seq_nr - ack_nr - 2) \div 8 + 1]
    /\ \A k \in 1..Len(sack) : \A b \in sack[k] :
          \E i \in 1..Len(ib) :
              ib[i].seq_nr > ack_nr /\ ib[i].seq_nr - ack_nr - 2 = 8 * (k - 1) + b

\* the recv_from of e takes, in this step, a Data packet that does not follow its
\* ack_nr, and answers it
AnswersGap(e) ==
    /\ UserRecv(e)
    /\ net[e] # <<>> /\ Len(net'[e]) < Len(net[e])
    /\ sock[e].state = "Connected"
    /\ Head(net[e]).pkt.type = "Data"
    /\ Wrap16(Head(net[e]).pkt.seq_nr - sock[e].ack_nr) > 1
    /\ sock'[e].ack_nr = sock[e].ack_nr
    /\ Len(SentNow(e)) = 1

\* C29: whatever ack_nr and the reorder buffer are, the State reply to a Data packet
\* that leaves a gap carries the bitmap of the buffered numbers above ack_nr (the
\* packet just buffered included): a multiple of 4 bytes, bit (q - ack_nr - 2) mod 8
\* of byte (q - ack_nr - 2) div 8 set exactly for those numbers q, also when they are
\* not adjacent or lie more than 8 beyond ack_nr + 2.
C29_SackBitmap ==
    [][\A e \in Endpoints :
          AnswersGap(e)
              => /\ SentNow(e)[1].pkt.type = "State"
                 /\ IsBitmapOf(SentNow(e)[1].pkt.sack, sock'[e].incoming_buffer,
                               sock[e].ack_nr)]_vars

\* the reader has buffered one packet, numbered ack_nr + 11, and its reply carries a
\* bitmap whose only bit set is bit 1 of byte 0, which stands for ack_nr + 3
C29_BitInWrongByte ==
    \E e \in Endpoints :
        /\ Len(sock[e].incoming_buffer) = 1
        /\ sock[e].incoming_buffer[1].seq_nr = sock[e].ack_nr + 11
        /\ net[Peer(e)] # <<>>
        /\ net[Peer(e)][Len(net[Peer(e)])].pkt.type = "State"
        /\ net[Peer(e)][Len(net[Peer(e)])].pkt.sack = <<{1}, {}, {}, {}>>

(***************************************************************************)
(* A State packet with a selective acknowledgment that the reader's caller *)
(* writes to the UDP socket itself, as test_selective_ack_response does:   *)
(* it acknowledges a number behind the reader's ack_nr.                    *)
(***************************************************************************)
\* how far behind the reader's ack_nr the State packet acknowledges
AckBehind == {1, 2}

\* the bitmaps it may carry (the test's is [12, 0, 0, 0]: bits 2 and 3 of byte 0)
Bitmaps == {<<{2, 3}, {}, {}, {}>>, <<{0}, {}, {}, {}>>, <<{}, {}, {}, {}>>}

RawState(e) ==
    /\ pc[e] = "idle" /\ sock[e].state = "Connected" /\ e \notin cfg.senders
    /\ "State" \in cfg.forge
    /\ \E b \in AckBehind, bm \in Bitmaps :
          net' = [net EXCEPT ![Peer(e)] =
                     Append(@, Dgram(sock[e].addr,
                                     [NewPacket EXCEPT
                                         !.type = "State",
                                         !.connection_id = sock[e].sender_connection_id,
                                         !.seq_nr = sock[e].seq_nr,
                                         !.ack_nr = Wrap16(sock[e].ack_nr - b),
                                         !.timestamp = now,
                                         !.sack = bm]))]
    /\ cfg' = [cfg EXCEPT !.forge = @ \ {"State"}]
    /\ UNCHANGED <<sock, pc, loc, out, ret, sent, calls, timeouts, now, chk>>

NextResend ==
    \/ \E e \in Endpoints : Connect(e)
    \/ \E e \in Endpoints : ConnectReceives(e)
    \/ \E e \in Endpoints : UserRecv(e)
    \/ \E e \in Endpoints : UserSendTo(e)
    \/ \E e \in Endpoints : CallRecv(e)
    \/ \E e \in Endpoints : RawState(e)

\* The initiator sends two packets (2 and 3); the acceptor, whose first sequence
\* number is 65535, sends two packets (65535 and 0).
InitResend ==
    InitWith({[Scenario({10}, {7}, {BUF_SIZE}, {2 * (MSS - HEADER_SIZE)}, {"c"}, {})
                  EXCEPT !.forge = {"State"}, !.timeouts = 0],
              [Scenario({10}, {U16 - 1}, {BUF_SIZE}, {MSS}, {"s"}, {})
                  EXCEPT !.forge = {"State"}, !.timeouts = 0]})

SpecResend == InitResend /\ [][NextResend]_vars

\* bit i of bitmap sack is set
BitSet(sack, i) == (i % 8) \in sack[i \div 8 + 1]

\* the State packet taken in this step carries a selective acknowledgment, and it is
\* not the third acknowledgment of its ack_nr in a row
TakesSack(e) ==
    /\ TakesState(e, "Connected")
    /\ Head(net[e]).pkt.sack # <<>>
    /\ sock'[e].duplicate_ack_count # 3

\* C30: on a State packet p with a selective acknowledgment, bit i stands for the
\* sequence number p.ack_nr + 2 + i modulo 2^16: for every clear bit whose number
\* precedes, in the order of 16-bit sequence numbers, the last packet of the send
\* window, the packet of that number in the send window is sent again; and no packet
\* of the send window at or past its last one, and no Data packet that is neither in
\* the send window nor waiting to be sent, is sent.
C30_SackResends ==
    [][\A e \in Endpoints :
          TakesSack(e)
              => LET p == Head(net[e]).pkt
                     w == sock[e].send_window
                 IN /\ \A i \in 0..(8 * Len(p.sack) - 1) : \A k \in 1..Len(w) :
                          (/\ ~BitSet(p.sack, i)
                           /\ w[k].seq_nr = Wrap16(p.ack_nr + 2 + i)
                           /\ Follows(w[Len(w)].seq_nr, w[k].seq_nr))
                              => Retransmitted(SentNow(e), w[k])
                    /\ \A j \in 1..Len(SentNow(e)) :
                          SentNow(e)[j].pkt.type = "Data"
                              => LET q == SentNow(e)[j].pkt.seq_nr
                                 IN IF FindSeq(w, q, 1) # 0
                                    THEN Follows(w[Len(w)].seq_nr, q)
                                    ELSE \/ FindSeq(sock[e].unsent_queue, q, 1) # 0
                                         \/ FindSeq(loc[e].packet, q, 1) # 0]_vars

\* the sender, with packets 65535 and 0 in flight, has taken a State packet that
\* acknowledges 65533 and whose bit 0, which stands for 65535, is clear, and it has
\* sent nothing again: its two Data packets are on their way to the peer once each
C30_NothingResent ==
    \E e \in Endpoints :
        /\ sock[e].last_acked = U16 - 3 /\ sock[e].duplicate_ack_count = 1
        /\ Len(sock[e].send_window) = 2
        /\ sock[e].send_window[1].seq_nr = U16 - 1 /\ sock[e].send_window[2].seq_nr = 0
        /\ pc[e] # "aborted"
        /\ net[e] = <<>> /\ out[Peer(e)] = <<>> /\ Len(net[Peer(e)]) = 2

(***************************************************************************)
(* A Fin that arrives before the Data packets in front of it.              *)
(***************************************************************************)
\* a recv_from of e takes, in this step, a packet of type ty that carries one of e's
\* connection ids, in state st
Takes(e, st, ty) ==
    /\ Receives(e)
    /\ net[e] # <<>> /\ Len(net'[e]) < Len(net[e])
    /\ sock[e].state = st
    /\ Head(net[e]).pkt.type = ty
    /\ ~ForeignId(sock[e], Head(net[e]).pkt)

\* C31: a Fin that arrives while Data packets in front of it are missing puts the
\* endpoint in FinReceived; a Data packet that arrives in FinReceived does not abort
\* the program, and once the payload of every Data packet has been returned by
\* recv_from and nothing more is on its way the endpoint is Closed.
C31_FinBeforeData ==
    [][\A e \in Endpoints :
          /\ (/\ Takes(e, "Connected", "Fin")
              /\ Wrap16(Head(net[e]).pkt.seq_nr - sock[e].ack_nr) # 1)
                 => sock'[e].state = "FinReceived"
          /\ Takes(e, "FinReceived", "Data")
                 => /\ pc'[e] # "aborted"
                    /\ (net'[e] = <<>> /\ out'[e] = Range(0, sent[Peer(e)]))
                           => sock'[e].state = "Closed"]_vars

\* the Fin arrived before every Data packet and put the reader in FinReceived;
\* the recv_from that took the next Data packet aborted, no byte having been returned
C31_AbortedOnMissingData ==
    \E e \in Endpoints :
        /\ pc[Peer(e)] = "raw"
        /\ sock[e].state = "FinReceived"
        /\ sock[e].fin_seq_nr = Wrap16(sock[Peer(e)].seq_nr + RawData)
        /\ pc[e] = "aborted" /\ ret[e] = Ret("recv_from", "panic", 0)
        /\ out[e] = <<>> /\ Len(net[e]) = RawData - 1

(***************************************************************************)
(* The flush of the reorder buffer, with a reader whose buffer is shorter  *)
(* than a payload in some calls and longer in others.                      *)
(***************************************************************************)
InitFlush == InitWith({Scenario({10}, {7}, {2, BUF_SIZE}, {3}, {}, {})})

SpecFlush == InitFlush /\ [][NextRaw]_vars

\* the caller of e calls recv_from with a buffer of n bytes in this step, and the call
\* returns success
RecvWith(e, n) ==
    /\ UserRecv(e)
    /\ ret'[e].res = "Ok"
    /\ \E ev \in Events(e, ReadsSocket(sock[e], n, chk)) :
       \E env \in Envs(e, ev) :
          /\ RecvReturns(e, RecvFrom(sock[e], n, ev, env), NetAfter(e, ev))
          /\ timeouts' = TimeoutsAfter(e, ev)

\* the head of the reorder buffer of s is numbered past ack_nr + 1
GapAtHead(s) ==
    /\ s.incoming_buffer # <<>>
    /\ Follows(Head(s.incoming_buffer).seq_nr, Wrap16(s.ack_nr + 1))

ProperSuffix(b, payload) ==
    \E k \in 1..(BLen(payload) - 1) : b = BDrop(payload, k)

\* C33: in every reachable state pending_data is empty, or the reorder buffer is not
\* empty and pending_data is the part of its head packet's payload that recv_from has
\* not returned yet: a suffix of that payload that begins where the bytes returned
\* so far end.
C33_PendingIsSuffix ==
    \A e \in Endpoints :
        sock[e].pending_data # <<>>
            => /\ sock[e].incoming_buffer # <<>>
               /\ ProperSuffix(sock[e].pending_data, Head(sock[e].incoming_buffer).payload)
               /\ out[e] # <<>>
               /\ LET l == out[e][Len(out[e])]
                  IN l.lo + l.n = sock[e].pending_data[1].lo

\* after two recv_from calls with a buffer of 400 bytes, the pending data is the
\* payload's last 200 bytes followed by its last 600 bytes
C33_PendingGrown ==
    \E e \in Endpoints :
        /\ sock[e].incoming_buffer # <<>>
        /\ Head(sock[e].incoming_buffer).payload = Range(0, 1000)
        /\ sock[e].pending_data = <<[lo |-> 800, n |-> 200], [lo |-> 400, n |-> 600]>>
        /\ ret[e] = Ret("recv_from", "Ok", 400)

(***************************************************************************)
(* A network that delivers an acknowledgment a second time, after later    *)
(* ones.                                                                   *)
(***************************************************************************)
\* a second copy of a State datagram on its way to a will arrive after the rest
Redelivers(a) ==
    /\ cfg.dups > 0
    /\ \E i \in 1..Len(net[a]) :
          /\ net[a][i].pkt.type = "State"
          /\ i < Len(net[a])
          /\ net' = [net EXCEPT ![a] = Append(@, net[a][i])]
    /\ cfg' = [cfg EXCEPT !.dups = @ - 1]
    /\ UNCHANGED <<sock, pc, loc, out, ret, sent, calls, timeouts, now, chk>>

NextAcks ==
    \/ \E e \in Endpoints : Connect(e)
    \/ \E e \in Endpoints : ConnectReceives(e)
    \/ \E e \in Endpoints : UserRecv(e)
    \/ \E e \in Endpoints : UserSendTo(e)
    \/ \E e \in Endpoints : CallRecv(e)
    \/ \E e \in Endpoints : Redelivers(e)

\* The initiator sends two Data packets, 2 and 3.
InitAcks ==
    InitWith({[Scenario({10}, {7}, {BUF_SIZE}, {2 * (MSS - HEADER_SIZE)}, {"c"}, {})
                  EXCEPT !.dups = MaxDups]})

SpecAcks == InitAcks /\ [][NextAcks]_vars

\* last_acked of e is an acknowledgment number e has seen: the initiator's handshake
\* sets it, the acceptor's first State packet does
SeenAck(e) == e = "c" \/ sock[e].duplicate_ack_count > 0

\* C34: last_acked is the highest acknowledgment number seen: a State packet never
\* moves it to a number that precedes it in the order of 16-bit sequence numbers, a
\* State packet that arrives after later ones included.
C34_LastAckedForward ==
    [][\A e \in Endpoints :
          (TakesState(e, "Connected") /\ SeenAck(e))
              => ~Follows(sock[e].last_acked, sock'[e].last_acked)]_vars

\* the sender has taken the acknowledgments of packets 2 and 3 and then a second copy
\* of the first: everything it sent is acknowledged and its last_acked is 2
C34_LastAckedWentBack ==
    \E e \in Endpoints :
        /\ sock[Peer(e)].ack_nr = 3 /\ sock[e].seq_nr = 4
        /\ sock[e].last_acked = 2 /\ sock[e].duplicate_ack_count = 1
        /\ sock[e].send_window = <<>>
        /\ net[e] = <<>> /\ cfg.dups = 0

(***************************************************************************)
(* A Reset that arrives while send_to waits.                               *)
(***************************************************************************)
\* The initiator sends three packets, the third of which waits in send() for room in
\* the window, and closes; a Reset may reach either endpoint.
InitSendReset ==
    InitWith({[Scenario({10}, {7}, {BUF_SIZE}, {2 * (MSS - HEADER_SIZE) + 1}, {"c"}, {"c"})
                  EXCEPT !.forge = {"Reset"}]})

SpecSendReset == InitSendReset /\ [][NextReset]_vars

\* a recv_from inside send_to at e, in either of its loops, returns an error in this
\* step: it takes a Reset that carries one of e's ids
SendToRecvFails(e) ==
    /\ pc[e] \in {"send", "send_ack"}
    /\ CallRecv(e)
    /\ TakesReset(e)

\* C35: an error of a recv_from inside send_to that is not a timeout, while send_to
\* waits for room in the window or for the last acknowledgment, ends the call and is
\* returned to its caller as an error; the program does not abort.
C35_SendToReturnsError ==
    [][\A e \in Endpoints :
          SendToRecvFails(e)
              => /\ pc'[e] = "idle"
                 /\ ret'[e].op = "send_to"
                 /\ ret'[e].res \in Errors]_vars

\* send_to, waiting in send() for room in the window with two packets in flight and a
\* third one held back, took a Reset and aborted the program
C35_AbortedInSend ==
    \E e \in Endpoints :
        /\ pc[e] = "aborted" /\ ret[e] = Ret("send_to", "panic", 0)
        /\ sock[e].state = "ResetReceived"
        /\ Len(sock[e].send_window) = 2

(***************************************************************************)
(* The numbers the handshake leaves.                                       *)
(***************************************************************************)
\* connect has returned success, both endpoints are Connected, and nothing has been
\* sent, received or timed out since
HandshakeJustDone ==
    /\ Returned("c", "connect", "Ok")
    /\ \A e \in Endpoints :
          /\ sock[e].state = "Connected" /\ pc[e] = "idle"
          /\ net[e] = <<>> /\ sent[e] = 0 /\ calls[e] = 0 /\ timeouts[e] = 0

Covers(b, seg) ==
    \E i \in 1..Len(b) : b[i].lo <= seg.lo /\ seg.lo + seg.n <= b[i].lo + b[i].n

\* e has received Data packet p: it is in e's reorder buffer, or recv_from has
\* returned its payload
HasReceived(e, p) ==
    \/ \E i \in 1..Len(sock[e].incoming_buffer) :
          /\ sock[e].incoming_buffer[i].seq_nr = p.seq_nr
          /\ sock[e].incoming_buffer[i].payload = p.payload
    \/ p.payload # <<>> /\ Covers(out[e], p.payload[1])

\* acknowledgment number ack_nr covers sequence number seq
Acknowledges(ack_nr, seq) == ack_nr = seq \/ Follows(ack_nr, seq)

\* C37: an endpoint never acknowledges data it did not receive: whenever a packet it
\* sent carries an ack_nr that covers the number of a Data packet its peer has sent,
\* the endpoint has received that Data packet, its payload buffered or returned,
\* whatever State, Syn or Fin packets arrived in between.
C37_AcksOnlyReceived ==
    \A e \in Endpoints :
        \A i \in 1..Len(net[Peer(e)]) : \A k \in 1..Len(sock[Peer(e)].send_window) :
            LET d == net[Peer(e)][i]
                p == sock[Peer(e)].send_window[k]
            IN (d.src = e /\ d.pkt.type # "Syn" /\ p.type = "Data"
                /\ Acknowledges(d.pkt.ack_nr, p.seq_nr))
                   => HasReceived(e, p)

\* the acceptor took a State packet numbered 2 that a timeout of the initiator sent,
\* which set its ack_nr to 2, and then the initiator's Data packet 2, which it did not
\* buffer: it has returned no byte, and its reply acknowledging 2 is on its way
C37_AckedUnreceived ==
    /\ timeouts["c"] = 1 /\ sent["c"] = 1000
    /\ sock["s"].ack_nr = 2 /\ sock["s"].incoming_buffer = <<>> /\ out["s"] = <<>>
    /\ net["s"] = <<>>
    /\ Len(sock["c"].send_window) = 1 /\ sock["c"].send_window[1].seq_nr = 2
    /\ \E i \in 1..Len(net["c"]) :
          net["c"][i].pkt.type = "State" /\ net["c"][i].pkt.ack_nr = 2

(***************************************************************************)
(* The pairs of state and packet type that handle_packet has an arm for.   *)
(***************************************************************************)
\* Both callers close; the initiator closes while the acceptor sends.
InitBothClose ==
    InitWith({Scenario({10}, {7}, {BUF_SIZE}, {1000}, {}, {"c", "s"}),
              Scenario({10}, {7}, {BUF_SIZE}, {1000}, {"s"}, {"c"})})

SpecBothClose == InitBothClose /\ [][Next]_vars

States == {"New", "SynSent", "Connected", "FinSent", "FinReceived", "ResetReceived", "Closed"}

PacketTypes == {"Data", "Fin", "State", "Reset", "Syn"}

\* the match of handle_packet has an arm other than the last for state st and type ty
HasArm(st, ty) ==
    \/ st = "New" /\ ty = "Syn"
    \/ st = "SynSent"
    \/ st = "Connected" /\ ty \in {"Syn", "Data", "State", "Fin"}
    \/ st = "FinSent" /\ ty = "State"
    \/ ty = "Reset"

\* C38: with two endpoints driven through connect, recv_from, send_to and close, no
\* endpoint ever hands handle_packet a packet, carrying one of its connection ids, of
\* a type for which its state has no arm: the abort "Unimplemented handling" is never
\* reached, Data or Fin arriving in FinSent or FinReceived and both sides closing at
\* the same time included.
C38_EveryPairHandled ==
    [][\A e \in Endpoints : \A st \in States : \A ty \in PacketTypes :
          Takes(e, st, ty) => HasArm(st, ty)]_vars

\* both callers called close at the same time: each sent its Fin, and one of them,
\* in FinSent, took the other's Fin and aborted in close
C38_AbortedOnFin ==
    \E e \in Endpoints :
        /\ ~chk
        /\ pc[e] = "aborted" /\ ret[e] = Ret("close", "panic", 0)
        /\ sock[e].state = "FinSent"
        /\ sock[Peer(e)].state = "FinSent"
        /\ sent[Peer(e)] = 0 /\ sent[e] = 0

(***************************************************************************)
(* The ceiling of the congestion window.                                   *)
(***************************************************************************)
\* the limit send() computes for the bytes in flight
MaxInflight(s) == Max(MIN_CWND * MSS, Min(s.cwnd, s.remote_wnd_size))

Waits(t) == t \div INITIAL_CONGESTION_TIMEOUT

\* the initiator calls connect(peer); its first wait lasts syn_timeout
TimedConnect(e) ==
    /\ e = "c" /\ pc[e] = "idle" /\ sock[e].state = "New" /\ ret[e] = NoRet
    /\ LET c == ConnectStart(sock[e], Peer(e), PlainEnv)
       IN /\ Continue(e, "connect", c, net)
          /\ cfg' = [cfg EXCEPT !.wake[e] = now + Waits(c.l.syn_timeout)]
    /\ UNCHANGED <<out, sent, calls, timeouts, now, chk>>

\* the wait of connect times out when its syn_timeout has passed
TimedConnectTimesOut(e) ==
    /\ pc[e] = "connect" /\ now = cfg.wake[e]
    /\ LET c == ConnectTimeout(sock[e], loc[e], PlainEnv)
       IN /\ Continue(e, "connect", c, net)
          /\ cfg' = [cfg EXCEPT !.wake[e] = now + Waits(c.l.syn_timeout)]
    /\ UNCHANGED <<out, sent, calls, timeouts, now, chk>>

\* what a call of recv_from by the acceptor may receive: the next datagram, or a
\* timeout once its read timeout has passed
TimedEvents(e) ==
    (IF net[e] # <<>> THEN {[kind |-> "pkt", dg |-> Head(net[e])]} ELSE {})
    \cup (IF sock[e].state # "New" /\ now = cfg.wake[e]
          THEN {[kind |-> "timeout"]} ELSE {})

\* the acceptor's call of recv_from returns and its caller calls it again, with
\* the read timeout recv sets: congestion_timeout
TimedRecv(e) ==
    /\ e = "s" /\ pc[e] = "idle"
    /\ \E ev \in TimedEvents(e) :
       \E env \in Envs(e, ev) :
          LET r == RecvFrom(sock[e], BUF_SIZE, ev, env)
          IN /\ RecvReturns(e, r, NetAfter(e, ev))
             /\ timeouts' = TimeoutsAfter(e, ev)
             /\ cfg' = [cfg EXCEPT !.wake[e] = now + Waits(r.s.congestion_timeout)]
    /\ UNCHANGED <<loc, sent, calls, now, chk>>

\* the network loses a datagram of the handshake
LosesHandshake(a) ==
    /\ cfg.drops > 0 /\ pc["c"] = "connect"
    /\ \E i \in 1..Len(net[a]) :
          /\ net[a][i].pkt.type \in {"Syn", "State"}
          /\ net' = [net EXCEPT ![a] = SubSeq(@, 1, i - 1) \o SubSeq(@, i + 1, Len(@))]
    /\ cfg' = [cfg EXCEPT !.drops = @ - 1]
    /\ UNCHANGED <<sock, pc, loc, out, ret, sent, calls, timeouts, now, chk>>

\* a unit of time passes while connect waits: every datagram has arrived or is
\* lost, and no wait in progress is due to time out
TimePasses ==
    /\ pc["c"] = "connect"
    /\ \A e \in Endpoints : net[e] = <<>>
    /\ now < cfg.wake["c"]
    /\ (pc["s"] = "idle" /\ sock["s"].state # "New") => now < cfg.wake["s"]
    /\ now' = now + 1
    /\ UNCHANGED <<sock, pc, loc, net, out, ret, sent, calls, timeouts, chk, cfg>>

NextHandshake ==
    \/ \E e \in Endpoints : TimedConnect(e)
    \/ \E e \in Endpoints : TimedConnectTimesOut(e)
    \/ \E e \in Endpoints : ConnectReceives(e)
    \/ \E e \in Endpoints : TimedRecv(e)
    \/ \E e \in Endpoints : LosesHandshake(e)
    \/ TimePasses

\* the network may lose one datagram less than connect sends Syn packets
InitHandshake ==
    InitWith({[Scenario({10}, {7}, {BUF_SIZE}, {1000}, {}, {})
                  EXCEPT !.drops = SYN_ATTEMPTS - 1]})

SpecHandshake == InitHandshake /\ [][NextHandshake]_vars

\* the steps of the two callers and of the clock are taken when they can be: connect
\* runs on, the acceptor keeps calling recv_from, time passes; the network need
\* lose nothing
FairHandshake ==
    /\ SpecHandshake
    /\ \A e \in Endpoints :
          /\ WF_vars(TimedConnect(e))
          /\ WF_vars(TimedConnectTimesOut(e))
          /\ WF_vars(ConnectReceives(e))
          /\ WF_vars(TimedRecv(e))
    /\ WF_vars(TimePasses)

\* connect has returned success and both endpoints are Connected
Established ==
    /\ Returned("c", "connect", "Ok")
    /\ \A e \in Endpoints : sock[e].state = "Connected"

\* C40: when the network loses at most four datagrams of the handshake, Syn packets
\* or State replies, and the acceptor keeps calling recv_from, connect eventually
\* returns success with both endpoints Connected.
C40_HandshakeToleratesLoss == <>Established

\* connect has succeeded although four datagrams were lost, after the acceptor's
\* reply to the first Syn was lost
C40_Witness ==
    /\ Returned("c", "connect", "Ok")
    /\ cfg.drops = 0
    /\ timeouts["s"] > 0

====
